---- MODULE Spec2Model ----
(***************************************************************************)
(* A model of the diff-test tool (crates/diff-test/src/main.rs): the       *)
(* structural JSON differ full_diff with its policy tables, the HTML       *)
(* canonicalisation applied to string leaves, the process-wide DIFF_MAP    *)
(* cache, and the run of main over two corpora with parallel workers.      *)
(*                                                                         *)
(* Rust strings are TLA+ strings; TLC evaluates Len, SubSeq and \o on      *)
(* them, so every string function below works character by character.     *)
(***************************************************************************)
EXTENDS Integers, Sequences, FiniteSets, TLC

(***************************************************************************)
(* Strings                                                                 *)
(***************************************************************************)

\* The characters of the model in byte order (str comparison in Rust is
\* byte-wise), used by Ord to compare strings.
ASCII == "\n !\"#$%&'()*+,-./0123456789:;<=>?@ABCDEFGHIJKLMNOPQRSTUVWXYZ[\\]^_abcdefghijklmnopqrstuvwxyz{|}~"

UPPER == "ABCDEFGHIJKLMNOPQRSTUVWXYZ"

LOWER == "abcdefghijklmnopqrstuvwxyz"

DIGITS == "0123456789"

At(s, i) == SubSeq(s, i, i)

From(s, i) == SubSeq(s, i, Len(s))

Chars(alphabet) == {At(alphabet, i) : i \in 1..Len(alphabet)}

\* the position of each character of ASCII, and of each letter and digit
OrdTable == [c \in Chars(ASCII) |-> CHOOSE i \in 1..Len(ASCII) : At(ASCII, i) = c]

UpperTable == [c \in Chars(UPPER) |-> CHOOSE i \in 1..Len(UPPER) : At(UPPER, i) = c]

Letters == Chars(UPPER) \cup Chars(LOWER)

Digits == Chars(DIGITS)

Ord(c) == OrdTable[c]

\* str::starts_with
starts_with(s, p) == Len(p) <= Len(s) /\ SubSeq(s, 1, Len(p)) = p

\* str::ends_with
ends_with(s, p) == Len(p) <= Len(s) /\ SubSeq(s, Len(s) - Len(p) + 1, Len(s)) = p

StartsAt(s, i, p) == i + Len(p) - 1 <= Len(s) /\ SubSeq(s, i, i + Len(p) - 1) = p

\* char::is_whitespace, over the characters of the model
is_whitespace(c) == c = " " \/ c = "\n"

is_ascii_digit(c) == c \in Digits

RECURSIVE trim_start(_)
trim_start(s) ==
  IF Len(s) > 0 /\ is_whitespace(At(s, 1)) THEN trim_start(From(s, 2)) ELSE s

RECURSIVE trim_end(_)
trim_end(s) ==
  IF Len(s) > 0 /\ is_whitespace(At(s, Len(s)))
  THEN trim_end(SubSeq(s, 1, Len(s) - 1))
  ELSE s

\* str::to_lowercase
RECURSIVE to_lowercase(_)
to_lowercase(s) ==
  IF Len(s) = 0 THEN ""
  ELSE LET c == At(s, 1)
       IN  (IF c \in DOMAIN UpperTable THEN At(LOWER, UpperTable[c]) ELSE c)
             \o to_lowercase(From(s, 2))

\* str::replace(from, to): leftmost, non-overlapping
RECURSIVE replace(_, _, _)
replace(s, from, to) ==
  IF Len(s) = 0 THEN ""
  ELSE IF starts_with(s, from)
       THEN to \o replace(From(s, Len(from) + 1), from, to)
       ELSE At(s, 1) \o replace(From(s, 2), from, to)

\* lexicographic byte order, the Ord of String
RECURSIVE StrLess(_, _)
StrLess(x, y) ==
  IF Len(y) = 0 THEN FALSE
  ELSE IF Len(x) = 0 THEN TRUE
  ELSE IF At(x, 1) = At(y, 1) THEN StrLess(From(x, 2), From(y, 2))
  ELSE Ord(At(x, 1)) < Ord(At(y, 1))

\* usize::to_string
RECURSIVE to_string_usize(_)
to_string_usize(i) ==
  IF i < 10 THEN At(DIGITS, i + 1)
  ELSE to_string_usize(i \div 10) \o At(DIGITS, (i % 10) + 1)

RECURSIVE join(_, _)
join(parts, sep) ==
  IF Len(parts) = 0 THEN ""
  ELSE IF Len(parts) = 1 THEN parts[1]
  ELSE parts[1] \o sep \o join(Tail(parts), sep)

(***************************************************************************)
(* serde_json::Value.  Every value is a record of one shape, so that any   *)
(* two values can be compared: t is the variant, s the text of a string,   *)
(* number or boolean, a the elements of an array, o the map of an object.  *)
(***************************************************************************)

Null == [t |-> "Null", s |-> "", a |-> <<>>, o |-> <<>>]

String(s) == [t |-> "String", s |-> s, a |-> <<>>, o |-> <<>>]

Number(s) == [t |-> "Number", s |-> s, a |-> <<>>, o |-> <<>>]

Bool(s) == [t |-> "Bool", s |-> s, a |-> <<>>, o |-> <<>>]

Array(a) == [t |-> "Array", s |-> "", a |-> a, o |-> <<>>]

Object(o) == [t |-> "Object", s |-> "", a |-> <<>>, o |-> o]

\* Value::get(key): the member of an object, None otherwise; callers
\* follow it with unwrap_or(&Value::Null)
get_key_or_null(v, key) ==
  IF v.t = "Object" /\ key \in DOMAIN v.o THEN v.o[key] ELSE Null

\* slice::get(i).unwrap_or(&Value::Null), i counted from 0
get_index_or_null(arr, i) == IF i + 1 <= Len(arr) THEN arr[i + 1] ELSE Null

\* the keys of a BTreeMap in ascending order
RECURSIVE SortedKeys(_)
SortedKeys(S) ==
  IF S = {} THEN <<>>
  ELSE LET m == CHOOSE x \in S : \A y \in S \ {x} : StrLess(x, y)
       IN  <<m>> \o SortedKeys(S \ {m})

\* Display for Value: compact JSON text (strings of the model need no escapes)
RECURSIVE to_string(_)
to_string(v) ==
  CASE v.t = "Null" -> "null"
    [] v.t = "String" -> "\"" \o v.s \o "\""
    [] v.t = "Array" ->
         "[" \o join([i \in 1..Len(v.a) |-> to_string(v.a[i])], ",") \o "]"
    [] v.t = "Object" ->
         LET ks == SortedKeys(DOMAIN v.o)
         IN  "{" \o join([i \in 1..Len(ks) |->
                           "\"" \o ks[i] \o "\":" \o to_string(v.o[ks[i]])], ",")
                 \o "}"
    [] OTHER -> v.s

(***************************************************************************)
(* Policy tables                                                           *)
(***************************************************************************)

IGNORED_KEYS == {
    "doc.flaws",
    "blogMeta.readTime",
    "doc.modified",
    "doc.popularity",
    "doc.source.github_url",
    "doc.source.last_commit_url",
    "doc.sidebarMacro",
    "doc.hasMathML",
    "doc.other_translations",
    "doc.summary" }

SKIP_GLOB_LIST == {
    "docs/mdn/writing_guidelines/",
    "docs/mozilla/add-ons/webextensions/",
    "docs/mozilla/firefox/releases/" }

ALLOWLIST == {
    <<"docs/glossary/http/index.json", "doc.body.0.value.content">>,
    <<"docs/learn/html/multimedia_and_embedding/other_embedding_technologies/index.json", "doc.body.4.value.content">>,
    <<"docs/web/http/headers/content-security-policy/frame-ancestors/index.json", "doc.body.2.value.content">>,
    <<"docs/learn/learning_and_getting_help/index.json", "doc.body.3.value.content">>,
    <<"docs/web/media/formats/video_codecs/index.json", "doc.body.6.value.content">>,
    <<"docs/learn/forms/form_validation/index.json", "doc.body.12.value.content">>,
    <<"docs/mdn/writing_guidelines/page_structures/live_samples/index.json", "doc.body.9.value.content">>,
    <<"docs/web/html/element/img/index.json", "doc.body.15.value.content">>,
    <<"docs/web/css/_colon_-moz-window-inactive/index.json", "doc.body.5.value.content">>,
    <<"docs/learn/server-side/express_nodejs/deployment/index.json", "doc.body.11.value.content">>,
    <<"docs/web/http/headers/set-login/index.json", "doc.body.2.value.content">>,
    <<"docs/web/html/element/a/index.json", "doc.body.2.value.content">>,
    <<"docs/web/css/background-size/index.json", "doc.body.4.value.content">>,
    <<"docs/web/css/color_value/color-mix/index.json", "doc.body.2.value.content">>,
    <<"docs/learn/common_questions/design_and_accessibility/design_for_all_types_of_users/index.json", "doc.body.5.value.content">>,
    <<"docs/learn/html/multimedia_and_embedding/video_and_audio_content/index.json", "doc.body.2.value.content">>,
    <<"docs/web/http/headers/content-security-policy/sources/index.json", "doc.body.1.value.content">>,
    <<"docs/learn/css/howto/css_faq/index.json", "doc.body.11.value.id">>,
    <<"docs/learn/forms/property_compatibility_table_for_form_controls/index.json", "doc.body.2.value.content">>,
    <<"docs/learn/html/howto/define_terms_with_html/index.json", "doc.body.0.value.content">>,
    <<"docs/learn/tools_and_testing/client-side_javascript_frameworks/react_interactivity_filtering_conditional_rendering/index.json", "doc.toc.3.id">>,
    <<"docs/learn/tools_and_testing/client-side_javascript_frameworks/react_interactivity_filtering_conditional_rendering/index.json", "doc.body.4.value.id">>,
    <<"docs/mdn/mdn_product_advisory_board/index.json", "doc.body.1.value.content">>,
    <<"docs/mdn/writing_guidelines/page_structures/live_samples/index.json", "doc.body.11.value.content">>,
    <<"docs/mdn/writing_guidelines/page_structures/live_samples/index.json", "doc.body.12.value.content">>,
    <<"docs/mdn/writing_guidelines/page_structures/live_samples/index.json", "doc.body.3.value.content">>,
    <<"docs/web/performance/speculative_loading/index.json", "doc.body.9.value.id">>,
    <<"docs/web/manifest/shortcuts/index.json", "doc.toc.1.id">>,
    <<"docs/web/svg/attribute/preserveaspectratio/index.json", "doc.body.3.value.id">>,
    <<"docs/web/svg/attribute/preserveaspectratio/index.json", "doc.body.4.value.id">>,
    <<"docs/web/svg/attribute/preserveaspectratio/index.json", "doc.body.5.value.id">>,
    <<"docs/web/svg/attribute/preserveaspectratio/index.json", "doc.body.6.value.id">>,
    <<"docs/web/mathml/element/mfenced/index.json", "doc.body.4.value.content">>,
    <<"docs/web/javascript/reference/classes/index.json", "doc.body.3.value.content">>,
    <<"docs/web/javascript/reference/operators/nullish_coalescing/index.json", "doc.body.8.value.id">>,
    <<"docs/web/css/css_containment/container_size_and_style_queries/index.json", "doc.toc.0.id">>,
    <<"docs/web/css/css_containment/container_size_and_style_queries/index.json", "doc.toc.2.id">>,
    <<"docs/web/css/@property/syntax/index.json", "doc.body.4.value.content">>,
    <<"docs/web/css/css_nesting/nesting_and_specificity/index.json", "doc.body.1.value.id">>,
    <<"docs/web/css/css_scroll_snap/using_scroll_snap_events/index.json", "doc.body.10.value.content">>,
    <<"docs/web/css/css_nesting/nesting_and_specificity/index.json", "doc.toc.0.id">>,
    <<"docs/web/css/nesting_selector/index.json", "doc.body.2.value.id">>,
    <<"docs/web/css/offset/index.json", "doc.body.5.value.content">>,
    <<"docs/web/css/position-try-fallbacks/index.json", "doc.body.7.value.content">>,
    <<"docs/web/css/position-try/index.json", "doc.body.5.value.content">>,
    <<"docs/web/css/position-area_value/index.json", "doc.toc.5.id">>,
    <<"docs/learn/forms/styling_web_forms/index.json", "doc.body.10.value.content">>,
    <<"docs/mdn/kitchensink/index.json", "doc.body.24.value.content">>,
    <<"docs/web/svg/attribute/begin/index.json", "doc.body.3.value.content">>,
    <<"docs/web/svg/attribute/begin/index.json", "doc.body.4.value.content">>,
    <<"docs/web/svg/attribute/begin/index.json", "doc.body.5.value.content">>,
    <<"docs/web/svg/attribute/begin/index.json", "doc.body.6.value.content">>,
    <<"docs/web/svg/attribute/begin/index.json", "doc.body.7.value.content">>,
    <<"docs/web/javascript/reference/global_objects/set/index.json", "doc.body.4.value.content">>,
    <<"docs/learn/html/introduction_to_html/html_text_fundamentals/index.json", "doc.body.15.value.content">>,
    <<"docs/learn/tools_and_testing/client-side_javascript_frameworks/vue_computed_properties/index.json", "doc.body.1.value.content">>,
    <<"docs/learn/tools_and_testing/client-side_javascript_frameworks/react_interactivity_filtering_conditional_rendering/index.json", "doc.body.4.value.i">>,
    <<"docs/mdn/writing_guidelines/page_structures/links/index.json", "doc.body.3.value.content">>,
    <<"docs/mdn/writing_guidelines/page_structures/links/index.json", "doc.body.4.value.content">>,
    <<"docs/mdn/writing_guidelines/page_structures/macros/commonly_used_macros/index.json", "doc.body.14.value.content">>,
    <<"docs/web/svg/attribute/d/index.json", "doc.body.7.value.content">>,
    <<"docs/web/svg/attribute/d/index.json", "doc.body.8.value.content">>,
    <<"docs/mdn/community/discussions/index.json", "doc.body.0.value.content">>,
    <<"docs/web/http/headers/te/index.json", "doc.body.1.value.content">>,
    <<"docs/mdn/kitchensink/index.json", "doc.baseline">>,
    <<"docs/mdn/writing_guidelines/page_structures/compatibility_tables/index.json", "doc.baseline">>,
    <<"docs/web/svg/attribute/data-_star_/index.json", "doc.body.1.value.specifications.0">>,
    <<"docs/web/http/headers/permissions-policy/screen-wake-lock/index.json", "doc.baseline">>,
    <<"docs/web/mathml/global_attributes/mathbackground/index.json", "doc.body.3.value.content">>,
    <<"docs/web/mathml/global_attributes/mathbackground/index.json", "doc.body.3.value.content">>,
    <<"docs/web/mathml/global_attributes/mathbackground/index.json", "doc.body.4.type">>,
    <<"docs/web/mathml/global_attributes/mathbackground/index.json", "doc.body.4.value.content">>,
    <<"docs/web/mathml/global_attributes/mathbackground/index.json", "doc.body.4.value.id">>,
    <<"docs/web/mathml/global_attributes/mathbackground/index.json", "doc.body.4.value.query">>,
    <<"docs/web/mathml/global_attributes/mathbackground/index.json", "doc.body.4.value.title">>,
    <<"docs/web/mathml/global_attributes/mathbackground/index.json", "doc.body.5.type">>,
    <<"docs/web/mathml/global_attributes/mathbackground/index.json", "doc.body.5.value.content">>,
    <<"docs/web/mathml/global_attributes/mathbackground/index.json", "doc.body.5.value.id">>,
    <<"docs/web/mathml/global_attributes/mathbackground/index.json", "doc.body.5.value.query">>,
    <<"docs/web/mathml/global_attributes/mathbackground/index.json", "doc.body.5.value.title">>,
    <<"docs/web/mathml/global_attributes/mathbackground/index.json", "doc.body.6">>,
    <<"docs/web/mathml/global_attributes/mathcolor/index.json", "doc.body.3.value.content">>,
    <<"docs/web/mathml/global_attributes/mathcolor/index.json", "doc.body.4.type">>,
    <<"docs/web/mathml/global_attributes/mathcolor/index.json", "doc.body.4.value.content">>,
    <<"docs/web/mathml/global_attributes/mathcolor/index.json", "doc.body.4.value.id">>,
    <<"docs/web/mathml/global_attributes/mathcolor/index.json", "doc.body.4.value.query">>,
    <<"docs/web/mathml/global_attributes/mathcolor/index.json", "doc.body.4.value.title">>,
    <<"docs/web/mathml/global_attributes/mathcolor/index.json", "doc.body.5.type">>,
    <<"docs/web/mathml/global_attributes/mathcolor/index.json", "doc.body.5.value.content">>,
    <<"docs/web/mathml/global_attributes/mathcolor/index.json", "doc.body.5.value.id">>,
    <<"docs/web/mathml/global_attributes/mathcolor/index.json", "doc.body.5.value.query">>,
    <<"docs/web/mathml/global_attributes/mathcolor/index.json", "doc.body.5.value.title">>,
    <<"docs/web/mathml/global_attributes/mathcolor/index.json", "doc.body.6">>,
    <<"docs/web/mathml/global_attributes/mathsize/index.json", "doc.body.3.value.content">>,
    <<"docs/web/mathml/global_attributes/mathsize/index.json", "doc.body.4.type">>,
    <<"docs/web/mathml/global_attributes/mathsize/index.json", "doc.body.4.value.content">>,
    <<"docs/web/mathml/global_attributes/mathsize/index.json", "doc.body.4.value.id">>,
    <<"docs/web/mathml/global_attributes/mathsize/index.json", "doc.body.4.value.query">>,
    <<"docs/web/mathml/global_attributes/mathsize/index.json", "doc.body.4.value.title">>,
    <<"docs/web/mathml/global_attributes/mathsize/index.json", "doc.body.5.type">>,
    <<"docs/web/mathml/global_attributes/mathsize/index.json", "doc.body.5.value.content">>,
    <<"docs/web/mathml/global_attributes/mathsize/index.json", "doc.body.5.value.id">>,
    <<"docs/web/mathml/global_attributes/mathsize/index.json", "doc.body.5.value.query">>,
    <<"docs/web/mathml/global_attributes/mathsize/index.json", "doc.body.5.value.title">>,
    <<"docs/web/mathml/global_attributes/mathsize/index.json", "doc.body.6">>,
    <<"docs/web/css/color_value/hwb/index.json", "doc.baseline">>,
    <<"docs/web/css/@media/dynamic-range/index.json", "doc.baseline">>,
    <<"docs/web/css/color_value/hwb/index.json", "doc.baseline">>,
    <<"docs/web/css/cursor/index.json", "doc.body.5.value.content">>,
    <<"docs/web/css/font-stretch/index.json", "doc.body.8.value.content">>,
    <<"docs/mdn/kitchensink/index.json", "doc.body.23.value.title">>,
    <<"docs/mdn/writing_guidelines/howto/write_an_api_reference/index.json", "doc.body.8.value.content">>,
    <<"docs/mdn/writing_guidelines/page_structures/code_examples/index.json", "doc.body.7.value.content">>,
    <<"docs/mdn/writing_guidelines/howto/write_an_api_reference/information_contained_in_a_webidl_file/index.json", "doc.body.23.value.content">>,
    <<"docs/web/accessibility/aria/attributes/aria-autocomplete/index.json", "doc.body.4.value.specifications.1.bcdSpecificationURL">>,
    <<"docs/web/accessibility/aria/attributes/aria-autocomplete/index.json", "doc.body.4.value.specifications.2">>,
    <<"docs/web/accessibility/aria/roles/combobox_role/index.json", "doc.body.5.value.specifications.1.bcdSpecificationURL">>,
    <<"docs/web/accessibility/aria/roles/combobox_role/index.json", "doc.body.5.value.specifications.2">>,
    <<"docs/web/security/practical_implementation_guides/tls/index.json", "doc.body.10.value.content">>,
    <<"docs/web/css/reference/index.json", "doc.body.4.value.content">>,
    <<"docs/web/html/element/input/button/index.json", "doc.body.11.value.content">>,
    <<"docs/web/html/element/input/color/index.json", "doc.body.12.value.content">>,
    <<"docs/web/html/element/input/date/index.json", "doc.body.16.value.content">>,
    <<"docs/web/html/element/input/datetime-local/index.json", "doc.body.14.value.content">>,
    <<"docs/web/html/element/input/email/index.json", "doc.body.22.value.content">>,
    <<"docs/web/html/element/input/file/index.json", "doc.body.17.value.content">>,
    <<"docs/web/html/element/input/hidden/index.json", "doc.body.9.value.content">>,
    <<"docs/web/html/element/input/image/index.json", "doc.body.23.value.content">>,
    <<"docs/web/html/element/input/month/index.json", "doc.body.20.value.content">>,
    <<"docs/web/html/element/input/number/index.json", "doc.body.22.value.content">>,
    <<"docs/web/html/element/input/password/index.json", "doc.body.20.value.content">>,
    <<"docs/web/html/element/input/radio/index.json", "doc.body.11.value.content">>,
    <<"docs/web/html/element/input/range/index.json", "doc.body.18.value.content">>,
    <<"docs/web/html/element/input/search/index.json", "doc.body.27.value.content">>,
    <<"docs/web/html/element/input/tel/index.json", "doc.body.21.value.content">>,
    <<"docs/web/html/element/input/text/index.json", "doc.body.22.value.content">>,
    <<"docs/web/html/element/input/time/index.json", "doc.body.22.value.content">>,
    <<"docs/web/html/element/input/url/index.json", "doc.body.22.value.content">>,
    <<"docs/web/html/element/input/week/index.json", "doc.body.17.value.content">>,
    <<"docs/web/html/element/link/index.json", "doc.body.2.value.content">>,
    <<"docs/web/html/element/script/index.json", "doc.body.1.value.content">>,
    <<"docs/web/html/element/input/checkbox/index.json", "doc.body.14.value.content">>,
    <<"docs/web/html/element/input/reset/index.json", "doc.body.11.value.content">>,
    <<"docs/web/html/element/input/submit/index.json", "doc.body.16.value.content">>,
    <<"docs/web/css/-webkit-mask-position-x/index.json", "doc.body.9.value.content">>,
    <<"docs/web/css/-webkit-mask-position-y/index.json", "doc.body.9.value.content">>,
    <<"docs/web/css/-webkit-mask-repeat-x/index.json", "doc.body.10.value.content">>,
    <<"docs/web/css/-webkit-mask-repeat-y/index.json", "doc.body.10.value.content">>,
    <<"docs/web/media/formats/video_concepts/index.json", "doc.body.3.value.content">>,
    <<"docs/web/svg/tutorial/introduction/index.json", "doc.body.0.value.content">>,
    <<"docs/web/css/css_flexible_box_layout/basic_concepts_of_flexbox/index.json", "doc.body.2.value.content">>,
    <<"docs/web/css/css_flexible_box_layout/basic_concepts_of_flexbox/index.json", "doc.body.3.value.content">>,
    <<"docs/web/manifest/index.json", "doc.body.1.value.content">>,
    <<"docs/web/manifest/orientation/index.json", "doc.body.6.value.content">>,
    <<"docs/web/css/-moz-orient/index.json", "doc.body.3.value.content">>,
    <<"docs/web/css/css_namespaces/index.json", "doc.body.0.value.content">>,
    <<"docs/web/css/shape-outside/index.json", "doc.body.4.value.content">>,
    <<"docs/web/css/stroke-dasharray/index.json", "doc.body.3.value.content">>,
    <<"docs/web/css/stroke-dashoffset/index.json", "doc.body.3.value.content">>,
    <<"docs/web/css/stroke-width/index.json", "doc.body.3.value.content">>,
    <<"docs/web/css/text-anchor/index.json", "doc.body.3.value.content">>,
    <<"docs/web/css/text-transform/index.json", "doc.body.15.value.content">>,
    <<"docs/web/css/x/index.json", "doc.body.3.value.content">>,
    <<"docs/web/css/y/index.json", "doc.body.3.value.content">>,
    <<"docs/web/css/stop-opacity/index.json", "doc.body.4.value.content">>,
    <<"docs/web/svg/attribute/end/index.json", "doc.body.1.value.content">>,
    <<"docs/web/html/element/track/index.json", "doc.body.5.value.content">>,
    <<"docs/web/html/global_attributes/itemscope/index.json", "doc.body.3.value.content">>,
    <<"docs/web/svg/attribute/index.json", "doc.body.30.value.content">>,
    <<"docs/web/svg/attribute/index.json", "doc.body.31.value.content">>,
    <<"docs/web/svg/element/animatemotion/index.json", "doc.body.4.value.content">>,
    <<"docs/web/svg/element/font-face-format/index.json", "doc.body.2.value.content">>,
    <<"docs/web/svg/element/index.json", "doc.body.18.value.content">>,
    <<"docs/web/svg/element/index.json", "doc.body.19.value.content">>,
    <<"docs/web/svg/element/index.json", "doc.body.20.value.content">>,
    <<"docs/web/svg/element/index.json", "doc.body.21.value.content">>,
    <<"docs/web/svg/element/index.json", "doc.body.22.value.content">>,
    <<"docs/web/svg/element/index.json", "doc.body.23.value.content">>,
    <<"docs/web/svg/element/index.json", "doc.body.24.value.content">>,
    <<"docs/web/svg/element/index.json", "doc.body.25.value.content">>,
    <<"docs/web/svg/element/index.json", "doc.body.27.value.content">>,
    <<"docs/web/svg/element/index.json", "doc.body.28.value.content">>,
    <<"docs/web/svg/element/index.json", "doc.body.29.value.content">>,
    <<"docs/web/svg/element/index.json", "doc.body.30.value.content">>,
    <<"docs/web/svg/element/index.json", "doc.body.31.value.content">>,
    <<"docs/web/svg/element/index.json", "doc.body.32.value.content">>,
    <<"docs/web/svg/element/index.json", "doc.body.33.value.content">>,
    <<"docs/web/svg/element/index.json", "doc.body.34.value.content">>,
    <<"docs/web/svg/element/index.json", "doc.body.35.value.content">>,
    <<"docs/web/svg/element/index.json", "doc.body.38.value.content">>,
    <<"docs/web/svg/element/index.json", "doc.body.39.value.content">>,
    <<"docs/web/css/@font-face/font-stretch/index.json", "doc.body.7.value.content">>,
    <<"docs/web/css/@starting-style/index.json", "doc.body.4.value.content">>,
    <<"docs/web/css/css_multicol_layout/index.json", "doc.body.0.value.content">>,
    <<"docs/web/css/font-variation-settings/index.json", "doc.body.5.value.content">>,
    <<"docs/web/css/-moz-image-region/index.json", "doc.body.3.value.content">>,
    <<"docs/web/css/@import/index.json", "doc.body.3.value.content">>,
    <<"docs/web/css/@supports/index.json", "doc.body.8.value.content">>,
    <<"docs/web/css/attr/index.json", "doc.body.4.value.content">>,
    <<"docs/web/css/calc-size/index.json", "doc.body.8.value.content">>,
    <<"docs/web/css/calc-sum/index.json", "doc.body.2.value.content">>,
    <<"docs/web/css/content/index.json", "doc.body.5.value.content">>,
    <<"docs/web/css/stop-color/index.json", "doc.body.3.value.content">>,
    <<"docs/web/css/stop-color/index.json", "doc.body.4.value.content">>,
    <<"docs/web/css/text-decoration-thickness/index.json", "doc.body.10.type">>,
    <<"docs/web/css/text-decoration-thickness/index.json", "doc.body.10.value.content">>,
    <<"docs/web/css/text-decoration-thickness/index.json", "doc.body.10.value.id">>,
    <<"docs/web/css/text-decoration-thickness/index.json", "doc.body.10.value.query">>,
    <<"docs/web/css/text-decoration-thickness/index.json", "doc.body.10.value.title">>,
    <<"docs/web/css/text-decoration-thickness/index.json", "doc.body.11">>,
    <<"docs/web/css/text-decoration-thickness/index.json", "doc.body.8.value.content">>,
    <<"docs/web/css/text-decoration-thickness/index.json", "doc.body.9.type">>,
    <<"docs/web/css/text-decoration-thickness/index.json", "doc.body.9.value.content">>,
    <<"docs/web/css/text-decoration-thickness/index.json", "doc.body.9.value.id">>,
    <<"docs/web/css/text-decoration-thickness/index.json", "doc.body.9.value.query">>,
    <<"docs/web/css/text-decoration-thickness/index.json", "doc.body.9.value.title">>,
    <<"docs/web/css/text-overflow/index.json", "doc.body.10.type">>,
    <<"docs/web/css/text-overflow/index.json", "doc.body.10.value.content">>,
    <<"docs/web/css/text-overflow/index.json", "doc.body.10.value.id">>,
    <<"docs/web/css/text-overflow/index.json", "doc.body.10.value.query">>,
    <<"docs/web/css/text-overflow/index.json", "doc.body.10.value.title">>,
    <<"docs/web/css/text-overflow/index.json", "doc.body.11.type">>,
    <<"docs/web/css/text-overflow/index.json", "doc.body.11.value.content">>,
    <<"docs/web/css/text-overflow/index.json", "doc.body.11.value.id">>,
    <<"docs/web/css/text-overflow/index.json", "doc.body.11.value.query">>,
    <<"docs/web/css/text-overflow/index.json", "doc.body.11.value.title">>,
    <<"docs/web/css/text-overflow/index.json", "doc.body.12">>,
    <<"docs/web/css/text-overflow/index.json", "doc.body.9.value.content">>,
    <<"docs/web/css/outline-color/index.json", "doc.body.7.value.content">>,
    <<"docs/web/css/outline/index.json", "doc.body.8.value.content">> }

(***************************************************************************)
(* Paths                                                                   *)
(***************************************************************************)

\* enum PathIndex { Object(String), Array(usize) }
PathIndexObject(s) == [t |-> "Object", s |-> s, i |-> 0]

PathIndexArray(i) == [t |-> "Array", s |-> "", i |-> i]

make_key(path) ==
  join([j \in 1..Len(path) |->
          IF path[j].t = "Object" THEN path[j].s ELSE to_string_usize(path[j].i)],
       ".")

is_html(s) == starts_with(trim_start(s), "<") /\ ends_with(trim_end(s), ">")

(***************************************************************************)
(* HTML canonicalisation of a string leaf                                  *)
(***************************************************************************)

\* the character class [\n ] of WS_DIFF and EMPTY_P_DIFF
InClass(c) == c = "\n" \/ c = " "

\* length of the longest prefix of s made of [\n ]
RECURSIVE ClassRun(_)
ClassRun(s) == IF Len(s) > 0 /\ InClass(At(s, 1)) THEN 1 + ClassRun(From(s, 2)) ELSE 0

\* WS_DIFF with its first alternative only: (?<x>>)[\n ]+
RECURSIVE WS_DIFF_first_alternative(_)
WS_DIFF_first_alternative(s) ==
  IF Len(s) = 0 THEN ""
  ELSE IF At(s, 1) = ">" /\ ClassRun(From(s, 2)) > 0
       THEN ">" \o WS_DIFF_first_alternative(From(s, 2 + ClassRun(From(s, 2))))
  ELSE At(s, 1) \o WS_DIFF_first_alternative(From(s, 2))

\* WS_DIFF.replace_all(s, "$x$y") for WS_DIFF = (?<x>>)[\n ]+|[\n ]+(?<y></):
\* leftmost match first, the first alternative preferred, matches do not overlap
RECURSIVE WS_DIFF_replace_all(_)
WS_DIFF_replace_all(s) ==
  IF Len(s) = 0 THEN ""
  ELSE IF At(s, 1) = ">" /\ ClassRun(From(s, 2)) > 0
       THEN ">" \o WS_DIFF_replace_all(From(s, 2 + ClassRun(From(s, 2))))
  ELSE IF ClassRun(s) > 0 /\ StartsAt(s, ClassRun(s) + 1, "</")
       THEN "</" \o WS_DIFF_replace_all(From(s, ClassRun(s) + 3))
  ELSE At(s, 1) \o WS_DIFF_replace_all(From(s, 2))

\* the empty paragraphs left where they are
EMPTY_P_DIFF_kept(s) == s

\* EMPTY_P_DIFF.replace_all(s, "") for EMPTY_P_DIFF = <p>[\n ]*</p>
RECURSIVE EMPTY_P_DIFF_replace_all(_)
EMPTY_P_DIFF_replace_all(s) ==
  IF Len(s) = 0 THEN ""
  ELSE IF starts_with(s, "<p>") /\ StartsAt(s, 4 + ClassRun(From(s, 4)), "</p>")
       THEN EMPTY_P_DIFF_replace_all(From(s, 8 + ClassRun(From(s, 4))))
  ELSE At(s, 1) \o EMPTY_P_DIFF_replace_all(From(s, 2))

\* position of the first occurrence of the character c in s, 0 when absent
RECURSIVE FindFrom(_, _, _)
FindFrom(s, c, i) ==
  IF i > Len(s) THEN 0 ELSE IF At(s, i) = c THEN i ELSE FindFrom(s, c, i + 1)

FindChar(s, c) == FindFrom(s, c, 1)

Contains(s, p) == \E i \in 1..(Len(s) + 1) : StartsAt(s, i, p)

IsLetter(c) == c \in Letters

\* elements without an end tag
VOID_ELEMENTS == {"br", "hr", "img", "input", "link", "meta"}

\* the attributes of a start tag, in order: name n, value v, source text raw
RECURSIVE ParseAttrs(_)
ParseAttrs(r) ==
  IF Len(r) = 0 THEN <<>>
  ELSE IF At(r, 1) = " " THEN ParseAttrs(From(r, 2))
  ELSE LET eq == FindChar(r, "=")
           sp == FindChar(r, " ")
           bare == eq = 0 \/ (sp > 0 /\ sp < eq)
           nameEnd == IF bare THEN (IF sp = 0 THEN Len(r) ELSE sp - 1) ELSE eq - 1
           quoted == ~bare /\ At(r, eq + 1) = "\""
           afterEq == From(r, eq + 1)
           close == IF quoted THEN FindChar(From(afterEq, 2), "\"") ELSE 0
           valLen == IF bare THEN 0
                     ELSE IF quoted THEN (IF close = 0 THEN Len(afterEq) - 1 ELSE close - 1)
                     ELSE (IF FindChar(afterEq, " ") = 0 THEN Len(afterEq)
                           ELSE FindChar(afterEq, " ") - 1)
           val == IF bare THEN ""
                  ELSE IF quoted THEN SubSeq(afterEq, 2, 1 + valLen)
                  ELSE SubSeq(afterEq, 1, valLen)
           used == IF bare THEN nameEnd
                   ELSE IF quoted THEN eq + 1 + valLen + (IF close = 0 THEN 0 ELSE 1)
                   ELSE eq + valLen
       IN  <<[n |-> SubSeq(r, 1, nameEnd), v |-> val, raw |-> SubSeq(r, 1, used)]>>
             \o ParseAttrs(From(r, used + 1))

HasAttr(attrs, n) == \E i \in 1..Len(attrs) : attrs[i].n = n

\* Element::get_attribute(n).unwrap_or_default()
get_attribute(attrs, n) ==
  IF HasAttr(attrs, n)
  THEN attrs[CHOOSE i \in 1..Len(attrs) :
               attrs[i].n = n /\ \A j \in 1..(i - 1) : attrs[j].n # n].v
  ELSE ""

\* Element::remove_attribute(n)
remove_attribute(attrs, n) == SelectSeq(attrs, LAMBDA x : x.n # n)

\* Element::set_attribute(n, v): replaces the value in place, or appends
set_attribute(attrs, n, v) ==
  LET new == [n |-> n, v |-> v, raw |-> n \o "=\"" \o v \o "\""]
  IN  IF HasAttr(attrs, n)
      THEN [i \in 1..Len(attrs) |-> IF attrs[i].n = n THEN new ELSE attrs[i]]
      ELSE Append(attrs, new)

\* the class selector .c: c is one of the space separated tokens of class
HasClass(attrs, c) ==
  HasAttr(attrs, "class")
    /\ Contains(" " \o get_attribute(attrs, "class") \o " ", " " \o c \o " ")

\* The handlers of pre_diff_element_massaging_handlers applied to one start
\* tag.  Selectors are matched against the tag as it was read (orig), the
\* handlers then run in the order of the vector on the element as modified
\* so far.  parent is the name of the enclosing open element.
massage_element(name, orig, parent, args) ==
  LET a1 == IF HasAttr(orig, "data-flaw-src")
            THEN remove_attribute(orig, "data-flaw-src") ELSE orig
      a2 == IF HasAttr(orig, "data-flaw") THEN remove_attribute(a1, "data-flaw") ELSE a1
      a3 == IF HasClass(orig, "page-not-created") THEN remove_attribute(a2, "class") ELSE a2
      a4 == IF name = "div" /\ (HasClass(orig, "notecard")
                                  \/ HasClass(orig, "example-header")
                                  \/ HasClass(orig, "code-example"))
            THEN remove_attribute(a3, "id") ELSE a3
      a5 == IF HasAttr(orig, "id")
            THEN set_attribute(a4, "id", to_lowercase(get_attribute(a4, "id"))) ELSE a4
      a6 == IF ~args.check_dts /\ name = "dt" THEN remove_attribute(a5, "id") ELSE a5
      unwrapP == args.ignore_ps /\ name = "p"
      unwrapA == ~args.check_dts /\ name = "a" /\ parent = "dt"
                   /\ HasAttr(orig, "href") /\ starts_with(get_attribute(orig, "href"), "#")
  IN  [attrs |-> a6, removed |-> unwrapP \/ unwrapA]

RECURSIVE SerializeAttrs(_)
SerializeAttrs(attrs) ==
  IF Len(attrs) = 0 THEN "" ELSE " " \o attrs[1].raw \o SerializeAttrs(Tail(attrs))

\* index of the innermost open element called name, 0 when there is none
OpenIndex(stack, name) ==
  IF \E i \in 1..Len(stack) : stack[i].name = name
  THEN CHOOSE i \in 1..Len(stack) :
         stack[i].name = name /\ \A j \in (i + 1)..Len(stack) : stack[j].name # name
  ELSE 0

\* lol_html::rewrite_str with the element handlers above: one pass over the
\* markup; stack holds the open elements and whether each was unwrapped
\* (remove_and_keep_content drops the start tag and its end tag).
RECURSIVE rewrite(_, _, _)

\* an end tag s[1..e] that closes the open element number j (0: none open)
end_tag(s, e, j, stack, args) ==
  IF j = 0 THEN SubSeq(s, 1, e) \o rewrite(From(s, e + 1), stack, args)
  ELSE (IF stack[j].removed THEN "" ELSE SubSeq(s, 1, e))
         \o rewrite(From(s, e + 1), SubSeq(stack, 1, j - 1), args)

\* a start tag s[1..e] of the element name with attributes orig, after the
\* handlers left it as el
start_tag(s, e, name, orig, el, stack, args) ==
  (IF el.removed THEN ""
   ELSE IF el.attrs = orig THEN SubSeq(s, 1, e)
   ELSE "<" \o name \o SerializeAttrs(el.attrs) \o ">")
    \o rewrite(From(s, e + 1),
               IF name \in VOID_ELEMENTS THEN stack
               ELSE Append(stack, [name |-> name, removed |-> el.removed]),
               args)

parent_of(stack) == IF Len(stack) = 0 THEN "" ELSE stack[Len(stack)].name

element(s, e, name, orig, stack, args) ==
  start_tag(s, e, name, orig, massage_element(name, orig, parent_of(stack), args), stack, args)

\* the name of a start tag ends at the first space of inner, at sp
named(s, e, inner, sp, stack, args) ==
  IF sp = 0 THEN element(s, e, inner, <<>>, stack, args)
  ELSE element(s, e, SubSeq(inner, 1, sp - 1), ParseAttrs(From(inner, sp + 1)), stack, args)

tag(s, e, stack, args) ==
  IF At(s, 2) = "/"
  THEN end_tag(s, e, OpenIndex(stack, trim_end(SubSeq(s, 3, e - 1))), stack, args)
  ELSE named(s, e, SubSeq(s, 2, e - 1), FindChar(SubSeq(s, 2, e - 1), " "), stack, args)

rewrite(s, stack, args) ==
  IF Len(s) = 0 THEN ""
  ELSE IF At(s, 1) = "<"
            /\ (IsLetter(At(s, 2)) \/ (At(s, 2) = "/" /\ IsLetter(At(s, 3))))
            /\ FindChar(s, ">") > 0
       THEN tag(s, FindChar(s, ">"), stack, args)
  ELSE At(s, 1) \o rewrite(From(s, 2), stack, args)

rewrite_str(s, args) == rewrite(s, <<>>, args)

\* html_minifier::minify: insignificant whitespace is dropped, a run of
\* whitespace inside the markup is kept as one space
RECURSIVE collapse(_)
collapse(s) ==
  IF Len(s) = 0 THEN ""
  ELSE IF is_whitespace(At(s, 1)) THEN " " \o collapse(From(s, 1 + ClassRun(s)))
  ELSE At(s, 1) \o collapse(From(s, 2))

minify(s) == collapse(trim_end(trim_start(s)))

\* xml::fmt_html: the canonical multi-line form, one tag or text run a line
RECURSIVE fmt_html(_)
fmt_html(s) ==
  IF Len(s) <= 1 THEN s
  ELSE IF At(s, 1) = ">" /\ At(s, 2) # "\n"
       THEN ">\n" \o fmt_html(From(s, 2))
  ELSE IF At(s, 1) # "\n" /\ At(s, 1) # ">" /\ At(s, 2) = "<"
       THEN At(s, 1) \o "\n" \o fmt_html(From(s, 2))
  ELSE At(s, 1) \o fmt_html(From(s, 2))

\* markup on which lol_html gives up: rewrite_str returns Err for a text that
\* holds it
Unprocessable == "<select><xmp>"

rewrite_str_is_err(s) == \E i \in 1..Len(s) : StartsAt(s, i, Unprocessable)

\* `.expect("lolhtml processing failed")` panics for one of the two sides
lolhtml_processing_failed(l, r) ==
  /\ is_html(l)
  /\ is_html(r)
  /\ \/ rewrite_str_is_err(EMPTY_P_DIFF_replace_all(WS_DIFF_replace_all(l)))
     \/ rewrite_str_is_err(EMPTY_P_DIFF_replace_all(WS_DIFF_replace_all(r)))

\* full_diff, the body of `if is_html(&lhs) && is_html(&rhs)` for one side
canonical_html(s, args) ==
  fmt_html(minify(rewrite_str(EMPTY_P_DIFF_replace_all(WS_DIFF_replace_all(s)), args)))

(***************************************************************************)
(* full_diff                                                               *)
(***************************************************************************)

Max(x, y) == IF x >= y THEN x ELSE y

Reverse(q) == [i \in 1..Len(q) |-> q[Len(q) + 1 - i]]

RECURSIVE Flatten(_)
Flatten(qs) == IF Len(qs) = 0 THEN <<>> ELSE qs[1] \o Flatten(Tail(qs))

\* `path.len() == 1` and `path[0]` is Object("url")
\* full_diff without the return at the root url
is_root_url_never(path) == FALSE

\* `if path.len() == 1 { if let PathIndex::Object(s) = &path[0] { if s == "url"`
is_root_url(path) == Len(path) = 1 /\ path[1].t = "Object" /\ path[1].s = "url"

\* full_diff without the look-up in SKIP_GLOB_LIST
skip_glob_never(file) == FALSE

skip_glob(file) == \E i \in SKIP_GLOB_LIST : starts_with(file, i)

\* full_diff without the look-up in ALLOWLIST
allowlisted_never(file, key) == FALSE

allowlisted(file, key) == <<file, key>> \in ALLOWLIST

\* the ignored keys without the rule for the sidebar
ignored_key_no_sidebar(key, args) == \E i \in IGNORED_KEYS : starts_with(key, i)

ignored_key(key, args) ==
  (\E i \in IGNORED_KEYS : starts_with(key, i)) \/ (key = "doc.sidebarHTML" /\ ~args.sidebars)

\* the sort key of a specification: v.get("bcdSpecificationURL")
\*   .unwrap_or(&Value::Null).to_string()
spec_sort_key(v) == to_string(get_key_or_null(v, "bcdSpecificationURL"))

\* Vec::sort_by_key is stable: an element goes behind those whose key is not
\* greater than its own
insert_sorted(init, v, n) == SubSeq(init, 1, n) \o <<v>> \o SubSeq(init, n + 1, Len(init))

place(init, v, k) ==
  insert_sorted(init, v,
                Cardinality({i \in 1..Len(init) : ~StrLess(k, spec_sort_key(init[i]))}))

RECURSIVE sort_by_key(_)
sort_by_key(arr) ==
  IF Len(arr) <= 1 THEN arr
  ELSE place(sort_by_key(SubSeq(arr, 1, Len(arr) - 1)), arr[Len(arr)],
             spec_sort_key(arr[Len(arr)]))

\* `(&lhs_sorted.clone(), &lhs_sorted.clone())`
sorted_sides(lhs_sorted, rhs_sorted) == <<lhs_sorted, lhs_sorted>>

\* the arrays under "specifications" compared as they come
array_sides_unsorted(key, lhs, rhs) == <<lhs, rhs>>

\* the pair of arrays the index loop runs over
array_sides(key, lhs, rhs) ==
  IF ends_with(key, "specifications")
  THEN sorted_sides(sort_by_key(lhs), sort_by_key(rhs))
  ELSE <<lhs, rhs>>

\* the index loop stopped at the end of the shorter array
array_len_shorter(lhs, rhs) == IF Len(lhs) <= Len(rhs) THEN Len(lhs) ELSE Len(rhs)

\* `let len = max(lhs.len(), rhs.len())`
array_len(lhs, rhs) == Max(Len(lhs), Len(rhs))

\* str::trim_end_matches(|c| c == '_' || c.is_ascii_digit())
RECURSIVE trim_end_id(_)
trim_end_id(s) ==
  IF Len(s) > 0 /\ (At(s, Len(s)) = "_" \/ is_ascii_digit(At(s, Len(s))))
  THEN trim_end_id(SubSeq(s, 1, Len(s) - 1))
  ELSE s

\* the match without its arm for the ids
normalize_by_key_no_id(key, s) ==
  IF key = "doc.sidebarMacro" THEN to_lowercase(s)
  ELSE IF key = "doc.summary" THEN replace(s, "\n  ", "\n")
  ELSE s

\* the `match key.as_str()` of the string arm
normalize_by_key(key, s) ==
  IF key = "doc.sidebarMacro" THEN to_lowercase(s)
  ELSE IF key = "doc.summary" THEN replace(s, "\n  ", "\n")
  ELSE IF starts_with(key, "doc.") /\ ends_with(key, "value.id") THEN trim_end_id(s)
  ELSE s

\* the `if is_html(&lhs) && is_html(&rhs)` block
canonical_sides(l, r, args) ==
  IF is_html(l) /\ is_html(r)
  THEN <<canonical_html(l, args), canonical_html(r, args)>>
  ELSE <<l, r>>

\* the two strings that are compared, hashed and rendered
string_sides(key, lhs, rhs, args) ==
  canonical_sides(normalize_by_key(key, lhs), normalize_by_key(key, rhs), args)

\* the iteration order of the HashSet of keys, order is "asc" or "desc"
keys_in_order(S, order) ==
  IF order = "asc" THEN SortedKeys(S) ELSE Reverse(SortedKeys(S))

\* full_diff as the sequence of the leaves at which it reaches diff.insert,
\* in the order it reaches them; a leaf of the string arm still has to
\* consult DIFF_MAP (see DiffMapGet and DiffMapInsert)
RECURSIVE full_diff(_, _, _, _, _, _)

\* the arm (Value::Array(lhs), Value::Array(rhs))
array_arm(sides, len, file, path, args, order) ==
  Flatten([j \in 1..len |->
    full_diff(get_index_or_null(sides[1], j - 1), get_index_or_null(sides[2], j - 1),
              file, Append(path, PathIndexArray(j - 1)), args, order)])

\* the arm (Value::Object(lhs), Value::Object(rhs))
object_arm(lhs, rhs, keys, file, path, args, order) ==
  Flatten([j \in 1..Len(keys) |->
    full_diff(get_key_or_null(lhs, keys[j]), get_key_or_null(rhs, keys[j]),
              file, Append(path, PathIndexObject(keys[j])), args, order)])

\* the arm (Value::String(lhs), Value::String(rhs)), from `if lhs != rhs` on
string_arm(key, sides) ==
  IF sides[1] # sides[2]
  THEN <<[arm |-> "String", key |-> key, lhs |-> sides[1], rhs |-> sides[2]]>>
  ELSE <<>>

\* the last arm going through DIFF_MAP as the string arm does
other_arm_cached(key, lhs, rhs) ==
  IF lhs # rhs THEN <<[arm |-> "String", key |-> key, lhs |-> lhs, rhs |-> rhs]>> ELSE <<>>

\* the arm (lhs, rhs) of everything else, on the two stringified values
other_arm(key, lhs, rhs) ==
  IF lhs # rhs THEN <<[arm |-> "Other", key |-> key, lhs |-> lhs, rhs |-> rhs]>> ELSE <<>>

\* the `match (lhs, rhs)`
match_arms(lhs, rhs, file, path, key, args, order) ==
  IF lhs.t = "Array" /\ rhs.t = "Array"
  THEN array_arm(array_sides(key, lhs.a, rhs.a), array_len(lhs.a, rhs.a),
                 file, path, args, order)
  ELSE IF lhs.t = "Object" /\ rhs.t = "Object"
  THEN object_arm(lhs, rhs, keys_in_order(DOMAIN lhs.o \cup DOMAIN rhs.o, order),
                  file, path, args, order)
  ELSE IF lhs.t = "String" /\ rhs.t = "String"
  THEN IF lolhtml_processing_failed(normalize_by_key(key, lhs.s), normalize_by_key(key, rhs.s))
       THEN <<[arm |-> "Panic", key |-> key, lhs |-> lhs.s, rhs |-> rhs.s]>>
       ELSE string_arm(key, string_sides(key, lhs.s, rhs.s, args))
  ELSE other_arm(key, to_string(lhs), to_string(rhs))

\* full_diff from `let key = make_key(path)` on
with_key(lhs, rhs, file, path, key, args, order) ==
  IF skip_glob(file) THEN <<>>
  ELSE IF allowlisted(file, key) THEN <<>>
  ELSE IF lhs = rhs THEN <<>>
  ELSE IF ignored_key(key, args) THEN <<>>
  ELSE match_arms(lhs, rhs, file, path, key, args, order)

full_diff(lhs, rhs, file, path, args, order) ==
  IF is_root_url(path) THEN <<>>
  ELSE with_key(lhs, rhs, file, path, make_key(path), args, order)

\* base64(Sha256(lhs bytes followed by rhs bytes)): the digest is taken of
\* the concatenation, distinct concatenations get distinct digests
diff_hash(lhs, rhs) == lhs \o rhs

\* ansi_to_html::convert(diff_words(lhs, rhs)) and the same for diff_lines:
\* the rendered text of a delta, kept as the delta and the granularity
rendered(how, lhs, rhs) == [how |-> how, lhs |-> lhs, rhs |-> rhs]

\* format!("See {}", hash.as_str()) for the value found in DIFF_MAP
see(marker) == [how |-> "See", lhs |-> marker, rhs |-> ""]

\* BTreeMap::insert
insert(map, k, v) == [x \in DOMAIN map \cup {k} |-> IF x = k THEN v ELSE map[x]]

\* the rendering stored on a miss
full_rendering(leaf, args) ==
  rendered(IF leaf.arm = "String" /\ args.fast THEN "diff_lines" ELSE "diff_words",
           leaf.lhs, leaf.rhs)

\* one leaf executed without interruption: [diff, map] after it
apply_leaf(leaf, diff, map, args) ==
  IF leaf.arm = "String" /\ diff_hash(leaf.lhs, leaf.rhs) \in DOMAIN map
  THEN [diff |-> insert(diff, leaf.key, see(map[diff_hash(leaf.lhs, leaf.rhs)])),
        map |-> map]
  ELSE [diff |-> insert(diff, leaf.key, full_rendering(leaf, args)),
        map |-> IF leaf.arm = "String"
                THEN insert(map, diff_hash(leaf.lhs, leaf.rhs), "somewhere else")
                ELSE map]

\* a whole call of full_diff on one thread, up to its return or its panic
RECURSIVE apply_leaves(_, _, _, _)
apply_leaves(leaves, diff, map, args) ==
  IF Len(leaves) = 0 \/ leaves[1].arm = "Panic" THEN [diff |-> diff, map |-> map]
  ELSE LET r == apply_leaf(leaves[1], diff, map, args)
       IN  apply_leaves(Tail(leaves), r.diff, r.map, args)

(***************************************************************************)
(* The run of main: Commands::Diff                                         *)
(***************************************************************************)

VARIABLES
  a,           \* gather(root_a): path -> Value
  b,           \* gather(root_b): path -> Value
  arg,         \* BuildArgs, the flags
  hash_order,  \* the iteration order of the HashSets of this process
  pc,          \* where main is
  same,        \* the AtomicUsize `same`
  DIFF_MAP,    \* the static DashMap: hash -> marker
  task,        \* per key of a: the closure of par_iter().filter_map on it
  out_file,    \* the file at arg.out
  summary,     \* what the final println! printed
  call,        \* a single call of a function on its own: its inputs and result
  input        \* what the command line names: the two trees and the --query

vars == <<a, b, arg, hash_order, pc, same, DIFF_MAP, task, out_file, summary, call, input>>

\* the number of documents of a corpus
NumDocs == 3

RunFiles == <<"docs/web/css/color/index.json",
              "docs/web/api/fetch/index.json",
              "docs/glossary/dom/index.json",
              "blog/intro/index.json",
              "docs/web/css/outline/index.json">>

\* a document of tree A and what tree B holds for it when it changed: the
\* title (a string delta), the page type (a number) and two exempt keys
DocOld ==
  Object([url |-> String("/a"),
          doc |-> Object([title |-> String("old"), popularity |-> Number("1"),
                          pageType |-> Number("1")])])

DocNew ==
  Object([url |-> String("/b"),
          doc |-> Object([title |-> String("new"), popularity |-> Number("2"),
                          pageType |-> Number("2")])])

\* the same with a projection (--query) that extracts a bare string
StrOld == String("<p>a</p>")

StrNew == String("<p>\n a</p>")

\* and what it holds when the new markup is beyond the rewriter
StrBad == String("<p>a</p><select><xmp>b</xmp></select>")

NoItem == <<>>

NewTask == [st |-> "todo", leaves |-> <<>>, miss |-> FALSE, diff |-> <<>>, item |-> NoItem]

NoCall == [st |-> "none", file |-> "", at |-> <<>>, lhs |-> Null, rhs |-> Null,
           diff |-> <<>>]

NoFile == [kind |-> "none", groups |-> <<>>, content |-> ""]

NoSummary == [same |-> 0, hits |-> 0, remaining |-> 0]

NoInput == [root_a |-> <<>>, root_b |-> <<>>, query |-> <<>>]

Flags == [html : BOOLEAN, csv : BOOLEAN, value : BOOLEAN,
          ignore_html_whitespace : BOOLEAN, fast : {FALSE}, inline : {FALSE},
          sidebars : {FALSE}, check_dts : {FALSE}, ignore_ps : {FALSE}]

FirstPass(args) == IF args.html THEN "html" ELSE IF args.csv THEN "csv" ELSE "print"

\* The state once both corpora are gathered.  Each of the NumDocs files is
\* the same on both sides, changed, or present on one side only.
Init ==
  \E fate \in [1..NumDocs -> {"same", "changed", "onlyA", "onlyB"}],
     strings \in BOOLEAN, bad \in BOOLEAN :
    LET old == IF strings THEN StrOld ELSE DocOld
        new == IF bad THEN StrBad ELSE IF strings THEN StrNew ELSE DocNew
        inA == {i \in 1..NumDocs : fate[i] # "onlyB"}
        inB == {i \in 1..NumDocs : fate[i] # "onlyA"}
    IN  /\ a = [k \in {RunFiles[i] : i \in inA} |-> old]
        /\ b = [k \in {RunFiles[i] : i \in inB} |->
                  IF \E i \in inB : RunFiles[i] = k /\ fate[i] = "changed"
                  THEN new ELSE old]
        /\ (bad => strings /\ \A i \in 1..NumDocs : fate[i] \in {"same", "changed"})
        /\ arg \in Flags
        /\ (arg.ignore_html_whitespace => strings /\ arg.html /\ ~arg.value)
        /\ hash_order \in {"asc", "desc"}
        /\ pc = FirstPass(arg)
        /\ same = 0
        /\ DIFF_MAP = <<>>
        /\ task = [k \in DOMAIN a |-> NewTask]
        /\ out_file = NoFile
        /\ summary = NoSummary
        /\ call = NoCall
        /\ input = NoInput

\* BTreeMap::get(k).unwrap_or(&Value::Null)
get_or_null(map, k) == IF k \in DOMAIN map THEN map[k] ELSE Null

\* `b.get(k) == Some(v)`
same_in_b(k) == k \in DOMAIN b /\ b[k] = a[k]

structural == pc = "csv" \/ (pc = "html" /\ arg.value)

\* Value::as_str().unwrap_or_default()
as_str_or_default(v) == IF v.t = "String" THEN v.s ELSE ""

\* the list item of a document in the HTML report
list_item(k, how, diff, left, right) ==
  [k |-> k, how |-> how, diff |-> diff, left |-> left, right |-> right]

\* the row of the first divergence of a document only
csv_rows_first(k, diff) == k \o ";" \o SortedKeys(DOMAIN diff)[1] \o "\n"

\* the rows of one document: "{k};{jsonpath}" joined by "\n", then "\n"
csv_rows(k, diff) ==
  LET keys == SortedKeys(DOMAIN diff)
  IN  join([i \in 1..Len(keys) |-> k \o ";" \o keys[i]], "\n") \o "\n"

\* what the closure returns for a document with a non-empty diff: the <li>
\* with the pretty-printed map in the HTML pass, its rows in the CSV pass
closure_item(k, diff) ==
  IF pc = "csv" THEN list_item(k, "csv", diff, csv_rows(k, diff), "")
  ELSE list_item(k, "r", diff, "", "")

\* the closure, first branch: the document is equal on both sides
CompareEqual(k) ==
  /\ pc \in {"html", "csv"}
  /\ task[k].st = "todo"
  /\ same_in_b(k)
  /\ same' = same + 1
  /\ task' = [task EXCEPT ![k].st = "done"]
  /\ UNCHANGED <<input, a, b, arg, hash_order, pc, DIFF_MAP, out_file, summary, call>>

\* A worker runs on its own up to its next access to DIFF_MAP: the leaves of
\* the last arm, which only insert into the diff of the document, are
\* executed with the step before them.
RECURSIVE run_local(_)
run_local(t) ==
  IF Len(t.leaves) > 0 /\ t.leaves[1].arm = "Other"
  THEN run_local([t EXCEPT !.leaves = Tail(@),
                           !.diff = insert(@, t.leaves[1].key,
                                           full_rendering(t.leaves[1], arg))])
  ELSE t

\* the closure enters full_diff(left, right, k, &[], &mut diff, arg)
StartDiff(k) ==
  /\ structural
  /\ task[k].st = "todo"
  /\ ~same_in_b(k)
  /\ task' = [task EXCEPT ![k] =
       run_local([@ EXCEPT !.st = "diff",
                           !.leaves = full_diff(a[k], get_or_null(b, k), k, <<>>,
                                                arg, hash_order)])]
  /\ UNCHANGED <<input, a, b, arg, hash_order, pc, same, DIFF_MAP, out_file, summary, call>>

\* full_diff, string arm: `if let Some(hash) = DIFF_MAP.get(&diff_hash)`
DiffMapGet(k) ==
  /\ task[k].st = "diff"
  /\ Len(task[k].leaves) > 0
  /\ task[k].leaves[1].arm = "String"
  /\ ~task[k].miss
  /\ LET leaf == task[k].leaves[1]
         h == diff_hash(leaf.lhs, leaf.rhs)
     IN  IF h \in DOMAIN DIFF_MAP
         THEN task' = [task EXCEPT ![k] =
                run_local([@ EXCEPT !.leaves = Tail(@),
                                    !.diff = insert(@, leaf.key, see(DIFF_MAP[h]))])]
         ELSE task' = [task EXCEPT ![k].miss = TRUE]
  /\ UNCHANGED <<input, a, b, arg, hash_order, pc, same, DIFF_MAP, out_file, summary, call>>

\* full_diff, string arm after a miss: DIFF_MAP.insert and diff.insert
DiffMapInsert(k) ==
  /\ task[k].st = "diff"
  /\ task[k].miss
  /\ LET leaf == task[k].leaves[1]
     IN  /\ DIFF_MAP' = insert(DIFF_MAP, diff_hash(leaf.lhs, leaf.rhs), "somewhere else")
         /\ task' = [task EXCEPT ![k] =
              run_local([@ EXCEPT !.leaves = Tail(@),
                                  !.miss = FALSE,
                                  !.diff = insert(@, leaf.key, full_rendering(leaf, arg))])]
  /\ UNCHANGED <<input, a, b, arg, hash_order, pc, same, out_file, summary, call>>

\* full_diff, string arm: rewrite_str(..).expect("lolhtml processing failed")
\* panics in the worker, and with it the par_iter and main
LolhtmlProcessingFailed(k) ==
  /\ task[k].st = "diff"
  /\ Len(task[k].leaves) > 0
  /\ task[k].leaves[1].arm = "Panic"
  /\ task' = [task EXCEPT ![k].st = "panicked"]
  /\ pc' = "panicked"
  /\ UNCHANGED <<input, a, b, arg, hash_order, same, DIFF_MAP, out_file, summary, call>>

\* the closure after full_diff returned: an item, or one more `same`
FinishDiff(k) ==
  /\ task[k].st = "diff"
  /\ Len(task[k].leaves) = 0
  /\ IF task[k].diff # <<>>
     THEN /\ task' = [task EXCEPT ![k].st = "done", ![k].item = <<closure_item(k, task[k].diff)>>]
          /\ same' = same
     ELSE /\ task' = [task EXCEPT ![k].st = "done"]
          /\ same' = same + 1
  /\ UNCHANGED <<input, a, b, arg, hash_order, pc, DIFF_MAP, out_file, summary, call>>

\* one side of the comparison of the else branch (no --value)
plain_side(s) ==
  IF arg.ignore_html_whitespace THEN minify(WS_DIFF_replace_all(s)) ELSE s

\* the closure, else branch of `if arg.value`: the two values compared as text
PlainValue(k) ==
  /\ pc = "html"
  /\ ~arg.value
  /\ task[k].st = "todo"
  /\ ~same_in_b(k)
  /\ LET left == plain_side(as_str_or_default(a[k]))
         right == plain_side(as_str_or_default(get_or_null(b, k)))
     IN  IF left = right
         THEN /\ same' = same + 1
              /\ task' = [task EXCEPT ![k].st = "done"]
         ELSE /\ same' = same
              /\ task' = [task EXCEPT ![k].st = "done",
                                      ![k].item = <<list_item(k, "ab", <<>>, left, right)>>]
  /\ UNCHANGED <<input, a, b, arg, hash_order, pc, DIFF_MAP, out_file, summary, call>>

\* str::splitn(n, '/')
RECURSIVE splitn(_, _)
splitn(s, n) ==
  IF n <= 1 \/ FindChar(s, "/") = 0 THEN <<s>>
  ELSE <<SubSeq(s, 1, FindChar(s, "/") - 1)>> \o splitn(From(s, FindChar(s, "/") + 1), n - 1)

\* every document under docs/ named by its second segment
category_by_second(k) ==
  LET p == splitn(k, 4)
  IN  IF Len(p) >= 2 /\ p[1] = "docs" THEN "docs/" \o p[2] ELSE p[1]

\* the category of a document in the HTML report
category(k) ==
  LET p == splitn(k, 4)
  IN  IF Len(p) >= 3 /\ p[1] = "docs" /\ p[2] = "web" THEN "docs/web/" \o p[3]
      ELSE IF Len(p) >= 2 /\ p[1] = "docs" THEN "docs/" \o p[2]
      ELSE p[1]

\* collect::<Vec<_>>() of the items: the order of the keys of a
collected ==
  LET keys == SortedKeys(DOMAIN a)
  IN  Flatten([i \in 1..Len(keys) |-> task[keys[i]].item])

\* the fold of the items into BTreeMap<category, Vec<item>>
grouped(items) ==
  [cat \in {category(items[i].k) : i \in 1..Len(items)} |->
     SelectSeq(items, LAMBDA li : category(li.k) = cat)]

RECURSIVE concat(_)
concat(strs) == IF Len(strs) = 0 THEN "" ELSE strs[1] \o concat(Tail(strs))

\* the second fold: one <li> a category, with the number of its items in
\* the summary; of an item the key is kept, its diff stays in groups
category_li(cat, items) ==
  "<li><details><summary>[" \o to_string_usize(Len(items)) \o "] " \o cat
    \o "</summary><ul>"
    \o concat([i \in 1..Len(items) |-> "<li><span>" \o items[i].k \o "</span></li>"])
    \o "</ul></details></li>"

\* the categories in the order of the BTreeMap
folded(groups, cats) == concat([i \in 1..Len(cats) |-> category_li(cats[i], groups[cats[i]])])

out(groups) == folded(groups, SortedKeys(DOMAIN groups))

written(groups) == [kind |-> "html", groups |-> groups, content |-> out(groups)]

AllDone == \A k \in DOMAIN task : task[k].st = "done"

\* after the HTML pass: group, render, File::create(&arg.out), write
WriteHtml ==
  /\ pc = "html"
  /\ AllDone
  /\ out_file' = written(grouped(collected))
  /\ pc' = IF arg.csv THEN "csv" ELSE "print"
  /\ task' = [k \in DOMAIN a |-> NewTask]
  /\ UNCHANGED <<input, a, b, arg, hash_order, same, DIFF_MAP, summary, call>>

\* after the CSV pass: header and rows, File::create(&arg.out), write
WriteCsv ==
  /\ pc = "csv"
  /\ AllDone
  /\ out_file' = [kind |-> "csv", groups |-> <<>>,
                  content |-> "File;JSON Path\n"
                                \o concat([i \in 1..Len(collected) |-> collected[i].left])]
  /\ pc' = "print"
  /\ UNCHANGED <<input, a, b, arg, hash_order, same, DIFF_MAP, task, summary, call>>

hits == Max(Cardinality(DOMAIN a), Cardinality(DOMAIN b))

\* the final println!: `hits - same.load(Relaxed)` is a usize subtraction,
\* which wraps in a build without overflow checks; 2^64 is beyond the
\* integers of TLC, so a negative remaining n stands for the usize 2^64 + n
PrintSummary ==
  /\ pc = "print"
  /\ summary' = [same |-> same, hits |-> hits, remaining |-> hits - same]
  /\ pc' = "done"
  /\ UNCHANGED <<input, a, b, arg, hash_order, same, DIFF_MAP, task, out_file, call>>

\* and panics ("attempt to subtract with overflow") in a build with them
PrintOverflow ==
  /\ pc = "print"
  /\ same > hits
  /\ pc' = "panicked"
  /\ UNCHANGED <<input, a, b, arg, hash_order, same, DIFF_MAP, task, out_file, summary, call>>

Next ==
  \/ \E k \in DOMAIN task : CompareEqual(k)
  \/ \E k \in DOMAIN task : StartDiff(k)
  \/ \E k \in DOMAIN task : DiffMapGet(k)
  \/ \E k \in DOMAIN task : DiffMapInsert(k)
  \/ \E k \in DOMAIN task : LolhtmlProcessingFailed(k)
  \/ \E k \in DOMAIN task : FinishDiff(k)
  \/ \E k \in DOMAIN task : PlainValue(k)
  \/ WriteHtml
  \/ WriteCsv
  \/ PrintSummary
  \/ PrintOverflow

Spec == Init /\ [][Next]_vars

(***************************************************************************)
(* A single call full_diff(lhs, rhs, file, &[], &mut diff, args), as the   *)
(* closures of main make it, on one thread.  The two documents hold the    *)
(* values under comparison at the path call.at.                            *)
(***************************************************************************)

\* the longest run of spaces in the generated markup
MaxRun == 2

\* the longest generated array of scalars, and of specifications
MaxArrayLen == 3

MaxSpecs == 2

DiffFiles == {"docs/web/api/fetch/index.json",
              "docs/mdn/kitchensink/index.json",
              "docs/web/css/css_nesting/nesting_and_specificity/index.json",
              "docs/mdn/writing_guidelines/page_structures/compatibility_tables/index.json"}

Path(names) == [i \in 1..Len(names) |-> PathIndexObject(names[i])]

\* the document that holds v at path and nothing else
RECURSIVE Wrap(_, _)
Wrap(path, v) ==
  IF Len(path) = 0 THEN v
  ELSE IF path[1].t = "Object"
       THEN Object([x \in {path[1].s} |-> Wrap(Tail(path), v)])
       ELSE Array([i \in 1..(path[1].i + 1) |->
                     IF i = path[1].i + 1 THEN Wrap(Tail(path), v) ELSE Null])

SeqsUpTo(E, n) == UNION {[1..m -> E] : m \in 0..n}

RECURSIVE Spaces(_)
Spaces(n) == IF n = 0 THEN "" ELSE " " \o Spaces(n - 1)

\* runs of [\n ]: spaces, or a line break and an indentation
WsRuns == {Spaces(n) : n \in 0..MaxRun} \cup {"\n" \o Spaces(n) : n \in 0..MaxRun}

Open(s) == [k |-> "open", s |-> s]

Close(s) == [k |-> "close", s |-> s]

Text(s) == [k |-> "text", s |-> s]

\* the gaps of a markup skeleton that are directly after an opening tag or
\* directly before a closing tag
Slots(sk) == {i \in 1..(Len(sk) - 1) : sk[i].k = "open" \/ sk[i + 1].k = "close"}

RECURSIVE FillFrom(_, _, _)
FillFrom(sk, f, i) ==
  IF i > Len(sk) THEN ""
  ELSE sk[i].s \o (IF i \in DOMAIN f THEN f[i] ELSE "") \o FillFrom(sk, f, i + 1)

Variants(sk, runs) == {FillFrom(sk, f, 1) : f \in [Slots(sk) -> runs]}

Paragraph == <<Open("<p>"), Text("hello"), Close("</p>")>>

List == <<Open("<ul>"), Open("<li>"), Text("a b"), Close("</li>"), Close("</ul>")>>

Skeletons == {Paragraph, List}

RunsOf(sk) == IF sk = Paragraph THEN WsRuns ELSE {"", "\n "}

\* paragraphs that hold nothing but [\n ], and markup to put behind them
EmptyParagraphs == {"<p></p>", "<p> </p>", "<p>\n</p>"}

Elements == {"<b>x</b>", "<p>hello</p>", "<h2 id=\"Ab\">t</h2>"}

HtmlPool ==
  UNION {Variants(sk, RunsOf(sk)) : sk \in Skeletons}
    \cup EmptyParagraphs \cup Elements \cup {""}
    \cup {e \o x : e \in EmptyParagraphs, x \in Elements}

IdPool == {"heading", "heading_2", "heading_3", "heading_2_1", "heading2", "other_2", "_7"}

Scalars == {Number("1"), Number("2"), Number("3"), Null}

sp(u, t) == Object([bcdSpecificationURL |-> String(u), title |-> String(t)])

Specifications == {sp("https://a", "A"), sp("https://b", "B"), sp("https://b", "B2"),
                   Object([title |-> String("none")])}

\* the parts of a whole page that the policy tables name
PolicyDocs ==
  {Object([url |-> String(u),
           doc |-> Object([baseline |-> bl, toc |-> Array(<<tc>>), title |-> String("t")])]) :
     u \in {"/a", "/b"},
     bl \in {Object([low |-> Number("1")]), Object([low |-> Number("2")]), String("high")},
     tc \in {Object([id |-> String("a"), text |-> String("x")]),
             Object([id |-> String("b"), text |-> String("x")]),
             Object([id |-> String("a"), text |-> String("y")])}}

NoFlags == [html |-> FALSE, csv |-> FALSE, value |-> FALSE, ignore_html_whitespace |-> FALSE,
            fast |-> FALSE, inline |-> FALSE, sidebars |-> FALSE, check_dts |-> FALSE,
            ignore_ps |-> FALSE]

\* pages with volatile fields, a sidebar and a title
VolatileDocs ==
  {Object([doc |-> Object([popularity |-> Number(n), flaws |-> Object([x |-> Number(f)]),
                           sidebarHTML |-> String(sb), title |-> String(t)])]) :
     n \in {"1", "2"}, f \in {"1", "2"}, sb \in {"s", "z"}, t \in {"t", "u"}}

\* pages with a title, a short title, both or neither, each a string or a
\* number
TwinDocs ==
  {Object([doc |-> Object(o)]) :
     o \in UNION {[K -> {String("a"), String("b"), Number("1")}] :
                    K \in SUBSET {"title", "short_title"}}}

\* values of every JSON kind
MixedValues == {Number("1"), Number("2"), Bool("true"), Bool("false"), Null, String("a"),
                Object([x |-> Number("1")]), Array(<<Number("1")>>)}

\* pages whose title and short title are pieces of one text
SplitDocs ==
  {Object([doc |-> Object([title |-> String(t), short_title |-> String(u)])]) :
     t \in {"ab", "a", "c", "bc"}, u \in {"ab", "a", "c", "bc"}}

\* the inputs of the call: where, and the two values there
Inputs ==
  [at : {<<>>}, l : PolicyDocs, r : PolicyDocs, file : DiffFiles, flags : {NoFlags},
   order : {"asc", "desc"}]
  \cup [at : {<<>>, Path(<<"doc", "tags">>)},
        l : {Array(x) : x \in SeqsUpTo(Scalars, MaxArrayLen)},
        r : {Array(x) : x \in SeqsUpTo(Scalars \ {Number("3")}, MaxArrayLen)},
        file : {"docs/web/api/fetch/index.json"}, flags : {NoFlags}, order : {"asc"}]
  \cup [at : {Path(<<"doc", "specifications">>)},
        l : {Array(x) : x \in SeqsUpTo(Specifications, MaxSpecs)},
        r : {Array(x) : x \in SeqsUpTo(Specifications, MaxSpecs)},
        file : {"docs/web/api/fetch/index.json"}, flags : {NoFlags},
        order : {"asc", "desc"}]
  \cup [at : {Path(<<"doc", "body">>) \o <<PathIndexArray(1)>> \o Path(<<"value", "id">>),
              Path(<<"value", "id">>), Path(<<"doc", "id">>)},
        l : {String(x) : x \in IdPool}, r : {String(x) : x \in IdPool},
        file : {"docs/web/api/fetch/index.json"}, flags : {NoFlags}, order : {"asc"}]
  \cup [at : {Path(<<"doc", "body">>) \o <<PathIndexArray(0)>> \o Path(<<"value", "content">>)},
        l : {String(x) : x \in HtmlPool}, r : {String(x) : x \in HtmlPool},
        file : {"docs/web/api/fetch/index.json"},
        flags : {NoFlags, [NoFlags EXCEPT !.ignore_ps = TRUE, !.check_dts = TRUE]},
        order : {"asc"}]
  \cup [at : {<<>>}, l : VolatileDocs, r : VolatileDocs,
        file : {"docs/web/api/fetch/index.json"},
        flags : {NoFlags, [NoFlags EXCEPT !.sidebars = TRUE]}, order : {"asc"}]
  \cup [at : {<<>>}, l : TwinDocs, r : TwinDocs,
        file : {"docs/web/api/fetch/index.json"}, flags : {NoFlags},
        order : {"asc", "desc"}]
  \cup [at : {Path(<<"doc", "title">>)}, l : MixedValues, r : MixedValues,
        file : {"docs/web/api/fetch/index.json"},
        flags : {NoFlags, [NoFlags EXCEPT !.fast = TRUE]}, order : {"asc"}]
  \cup [at : {<<>>}, l : SplitDocs, r : SplitDocs,
        file : {"docs/web/api/fetch/index.json"}, flags : {NoFlags}, order : {"asc"}]

InitDiff ==
  \E in \in Inputs :
    /\ call = [st |-> "ready", file |-> in.file, at |-> in.at,
               lhs |-> Wrap(in.at, in.l), rhs |-> Wrap(in.at, in.r), diff |-> <<>>]
    /\ arg = in.flags
    /\ hash_order = in.order
    /\ DIFF_MAP = <<>>
    /\ a = <<>>
    /\ b = <<>>
    /\ pc = "call"
    /\ same = 0
    /\ task = <<>>
    /\ out_file = NoFile
    /\ summary = NoSummary
    /\ input = NoInput

\* full_diff(&lhs, &rhs, file, &[], &mut diff, args) runs to its end
Called(leaves) ==
  LET r == apply_leaves(leaves, <<>>, DIFF_MAP, arg)
  IN  /\ call' = [call EXCEPT !.st = IF \E i \in 1..Len(leaves) : leaves[i].arm = "Panic"
                                     THEN "panicked" ELSE "done",
                              !.diff = r.diff]
      /\ DIFF_MAP' = r.map

Call ==
  /\ call.st = "ready"
  /\ Called(full_diff(call.lhs, call.rhs, call.file, <<>>, arg, hash_order))
  /\ UNCHANGED <<input, a, b, arg, hash_order, pc, same, task, out_file, summary>>

NextDiff == Call

SpecDiff == InitDiff /\ [][NextDiff]_vars

(***************************************************************************)
(* Properties of a single call (specification SpecDiff)                    *)
(***************************************************************************)

\* the value a document holds at a path, null where it holds none
RECURSIVE ValueAt(_, _)
ValueAt(v, path) ==
  IF Len(path) = 0 THEN v
  ELSE IF path[1].t = "Object" THEN ValueAt(get_key_or_null(v, path[1].s), Tail(path))
  ELSE IF v.t = "Array" THEN ValueAt(get_index_or_null(v.a, path[1].i), Tail(path))
  ELSE Null

\* the two values under comparison and their dotted path
Left == ValueAt(call.lhs, call.at)

Right == ValueAt(call.rhs, call.at)

AtKey == make_key(call.at)

Returned == call.st = "done"

\* C2: after a call for a file, no key of its divergence map is a path the
\* allow-list names for that file, nor a path beneath one.
C2_AllowlistExemption ==
  Returned =>
    \A e \in ALLOWLIST :
      e[1] = call.file =>
        \A key \in DOMAIN call.diff : key # e[2] /\ ~starts_with(key, e[2] \o ".")

\* C2 happens: the two documents differ at the allow-listed path doc.baseline
\* of the file, and the call recorded a divergence elsewhere in the document
C2_Witness ==
  /\ Returned
  /\ <<call.file, "doc.baseline">> \in ALLOWLIST
  /\ ValueAt(call.lhs, Path(<<"doc", "baseline">>)) # ValueAt(call.rhs, Path(<<"doc", "baseline">>))
  /\ "doc.toc.0.text" \in DOMAIN call.diff

\* both values are arrays of numbers and nulls, at a key that does not end
\* in "specifications"
ScalarArrays ==
  /\ Left.t = "Array"
  /\ Right.t = "Array"
  /\ ~ends_with(AtKey, "specifications")
  /\ \A i \in 1..Len(Left.a) : Left.a[i] \in Scalars
  /\ \A i \in 1..Len(Right.a) : Right.a[i] \in Scalars

IndexKey(i) == make_key(Append(call.at, PathIndexArray(i)))

Padded(arr, i) == IF i < Len(arr) THEN arr[i + 1] ELSE Null

Longest == IF Len(Left.a) >= Len(Right.a) THEN Len(Left.a) ELSE Len(Right.a)

\* C4: two arrays are compared index by index up to the longer one, an index
\* one side lacks standing for null: the divergences are exactly the indices
\* where the padded elements differ, each the word diff of the two
\* stringified elements, and the key of the array itself holds none.
C4_ArrayPadding ==
  (Returned /\ ScalarArrays) =>
    /\ DOMAIN call.diff =
         {IndexKey(i) : i \in {j \in 0..(Longest - 1) : Padded(Left.a, j) # Padded(Right.a, j)}}
    /\ \A i \in 0..(Longest - 1) :
         IndexKey(i) \in DOMAIN call.diff =>
           call.diff[IndexKey(i)] =
             rendered("diff_words", to_string(Padded(Left.a, i)), to_string(Padded(Right.a, i)))
    /\ AtKey \notin DOMAIN call.diff

\* C4 happens: [1,2,3] against [1,2] gave one divergence, 3 against null at
\* index 2
C4_Witness ==
  /\ Returned
  /\ call.at = Path(<<"doc", "tags">>)
  /\ Left = Array(<<Number("1"), Number("2"), Number("3")>>)
  /\ Right = Array(<<Number("1"), Number("2")>>)
  /\ DOMAIN call.diff = {"doc.tags.2"}
  /\ call.diff["doc.tags.2"] = rendered("diff_words", "3", "null")

\* both values are arrays at a key that ends in "specifications"
SpecificationArrays ==
  /\ Left.t = "Array"
  /\ Right.t = "Array"
  /\ ends_with(AtKey, "specifications")

\* y holds the elements of x in another order
Reordered(x, y) ==
  /\ Len(x) = Len(y)
  /\ x # y
  /\ \E p \in [1..Len(x) -> 1..Len(x)] :
       /\ \A i, j \in 1..Len(x) : p[i] = p[j] => i = j
       /\ \A i \in 1..Len(x) : y[i] = x[p[i]]

\* C5: two arrays at a key ending in "specifications" that hold the same
\* elements in a different order give no divergence.
C5_SpecificationSortTolerance ==
  (Returned /\ SpecificationArrays /\ Reordered(Left.a, Right.a)) => call.diff = <<>>

\* C5 happens: the specification for https://a before and after the one for
\* https://b
C5_Witness ==
  /\ Returned
  /\ AtKey = "doc.specifications"
  /\ Left = Array(<<sp("https://a", "A"), sp("https://b", "B")>>)
  /\ Right = Array(<<sp("https://b", "B"), sp("https://a", "A")>>)
  /\ call.diff = <<>>

\* C6: two arrays at a key ending in "specifications" whose forms sorted by
\* the stringified bcdSpecificationURL differ at some index give a
\* divergence beneath that key.
C6_SortedSidesCompared ==
  (Returned /\ SpecificationArrays /\ sort_by_key(Left.a) # sort_by_key(Right.a)) =>
    \E key \in DOMAIN call.diff : starts_with(key, AtKey \o ".")

\* s without its trailing characters that are '_' or ASCII digits
IdSuffixChars == {"_", "0", "1", "2", "3", "4", "5", "6", "7", "8", "9"}

Stem(s) ==
  SubSeq(s, 1, CHOOSE n \in 0..Len(s) :
                 /\ \A i \in (n + 1)..Len(s) : At(s, i) \in IdSuffixChars
                 /\ (n > 0 => At(s, n) \notin IdSuffixChars))

\* both values are strings that differ and have the same stem
SameStem ==
  /\ Left.t = "String"
  /\ Right.t = "String"
  /\ Left.s # Right.s
  /\ Stem(Left.s) = Stem(Right.s)

\* C7 as stated: at any path ending in "value.id", two strings that are
\* equal once their trailing '_' and digits are stripped give no divergence.
C7_AnyPathEndingValueId ==
  (Returned /\ ends_with(AtKey, "value.id") /\ SameStem) => call.diff = <<>>

\* C7: at a path whose dotted form starts with "doc." and ends in
\* "value.id", two strings that are equal once their trailing '_' and digits
\* are stripped give no divergence.
C7_IdSuffixTolerance ==
  (Returned /\ starts_with(AtKey, "doc.") /\ ends_with(AtKey, "value.id") /\ SameStem) =>
    call.diff = <<>>

\* C7 happens: "heading_2" against "heading_3" at doc.body.1.value.id
C7_Witness ==
  /\ Returned
  /\ AtKey = "doc.body.1.value.id"
  /\ Left = String("heading_2")
  /\ Right = String("heading_3")
  /\ call.diff = <<>>

ParagraphVariants == Variants(Paragraph, RunsOf(Paragraph))

ListVariants == Variants(List, RunsOf(List))

\* both values are strings of the same markup that differ only in the runs
\* of spaces and line breaks directly after an opening tag or directly before
\* a closing tag
SameMarkup ==
  /\ Left.t = "String"
  /\ Right.t = "String"
  /\ Left.s # Right.s
  /\ \/ Left.s \in ParagraphVariants /\ Right.s \in ParagraphVariants
     \/ Left.s \in ListVariants /\ Right.s \in ListVariants

\* C8: two strings that look like HTML and differ only by runs of spaces and
\* line breaks directly after an opening tag or directly before a closing tag
\* give no divergence.
C8_HtmlWhitespaceTolerance ==
  (Returned /\ SameMarkup) => call.diff = <<>>

\* C8 happens: the paragraph with its text on a line of its own against the
\* paragraph on one line
C8_Witness ==
  /\ Returned
  /\ Left = String("<p>\n  hello\n</p>")
  /\ Right = String("<p>hello</p>")
  /\ call.diff = <<>>

\* one value is an empty paragraph and the other the empty string
EmptyParagraphAgainstNothing ==
  /\ Left.t = "String"
  /\ Right.t = "String"
  /\ \/ Left.s \in EmptyParagraphs /\ Right.s = ""
     \/ Left.s = "" /\ Right.s \in EmptyParagraphs

\* one value is an empty paragraph followed by an element and the other that
\* element alone
EmptyParagraphBeforeElement ==
  /\ Left.t = "String"
  /\ Right.t = "String"
  /\ \E e \in EmptyParagraphs, x \in Elements :
       \/ Left.s = e \o x /\ Right.s = x
       \/ Left.s = x /\ Right.s = e \o x

OtherKinds ==
  \/ Left.t # Right.t
  \/ Left.t \notin {"Array", "Object", "String"}

\* C23: two unequal values at doc.title that are not both arrays, objects or
\* strings give one divergence, at doc.title, the word diff of the two
\* stringified values, and DIFF_MAP is neither read nor written.
C23_OtherMismatch ==
  (Returned /\ call.at = Path(<<"doc", "title">>) /\ Left # Right /\ OtherKinds) =>
    /\ call.diff = ("doc.title" :> rendered("diff_words", to_string(Left), to_string(Right)))
    /\ DIFF_MAP = <<>>

\* C23 happens: an object against null, under --fast
C23_Witness ==
  /\ Returned
  /\ call.at = Path(<<"doc", "title">>)
  /\ arg.fast
  /\ Left.t = "Object"
  /\ Right = Null
  /\ DOMAIN call.diff = {"doc.title"}
  /\ call.diff["doc.title"].how = "diff_words"

\* the divergence map of the same call with the keys of every object visited
\* in the other order
OtherOrder == IF hash_order = "asc" THEN "desc" ELSE "asc"

OtherOrderDiff ==
  apply_leaves(full_diff(call.lhs, call.rhs, call.file, <<>>, arg, OtherOrder),
               <<>>, <<>>, arg).diff

LeftDoc == ValueAt(call.lhs, Path(<<"doc">>))

RightDoc == ValueAt(call.rhs, Path(<<"doc">>))

\* a key of one side only is compared against null
AgainstNull(one, other, left) ==
  \A k \in DOMAIN one.o \ DOMAIN other.o :
    /\ ("doc." \o k) \in DOMAIN call.diff
    /\ call.diff["doc." \o k] =
         IF left THEN rendered("diff_words", to_string(one.o[k]), "null")
         ELSE rendered("diff_words", "null", to_string(one.o[k]))

\* C22: for two unequal objects every key of either side is compared, a key
\* of one side only against null, and the divergence map, keys and values,
\* is the same whatever the order in which the keys are visited.
C22_KeyOrderIndependence ==
  (Returned /\ call.lhs \in TwinDocs /\ call.rhs \in TwinDocs) =>
    /\ AgainstNull(LeftDoc, RightDoc, TRUE)
    /\ AgainstNull(RightDoc, LeftDoc, FALSE)
    /\ call.diff = OtherOrderDiff

TitleKeys == {"title", "short_title"}

\* the divergence map holds a back-reference at doc.<n>
BackReferenceAt(n) ==
  /\ ("doc." \o n) \in DOMAIN call.diff
  /\ call.diff["doc." \o n].how = "See"

\* the divergence map holds the rendered diff of the delta (lhs, rhs)
RenderedIn(lhs, rhs) ==
  \E m \in TitleKeys :
    /\ ("doc." \o m) \in DOMAIN call.diff
    /\ call.diff["doc." \o m] = rendered("diff_words", lhs, rhs)

\* C26: where a divergence map holds a back-reference for a delta, a
\* divergence map holds the rendered diff of the same (lhs, rhs); and the
\* hash of every rendered delta is registered in DIFF_MAP.
C26_NoDanglingBackReference ==
  (Returned /\ call.lhs \in SplitDocs /\ call.rhs \in SplitDocs) =>
    \A n \in TitleKeys :
      /\ BackReferenceAt(n) => RenderedIn(LeftDoc.o[n].s, RightDoc.o[n].s)
      /\ ("doc." \o n) \in DOMAIN call.diff =>
           diff_hash(LeftDoc.o[n].s, RightDoc.o[n].s) \in DOMAIN DIFF_MAP

(***************************************************************************)
(* Properties of a run (specification Spec)                                *)
(***************************************************************************)

Finished == pc = "done"

\* the divergences of the pass made last: (document, JSON path)
Divergences == UNION {{<<k, p>> : p \in DOMAIN task[k].diff} : k \in DOMAIN task}

\* C1: when both corpora are the same mapping, a run that writes a report
\* (--html or --csv) reports no divergence, neither an item nor a row, and
\* prints a count of same documents equal to the number of keys.
C1_SelfComparison ==
  (Finished /\ a = b /\ (arg.html \/ arg.csv)) =>
    /\ Divergences = {}
    /\ out_file.groups = <<>>
    /\ out_file.content \in {"", "File;JSON Path\n"}
    /\ summary.same = Cardinality(DOMAIN a)

\* three documents with one and the same string delta, at doc.title
ThreeShareOneDelta ==
  /\ Cardinality(DOMAIN a) = 3
  /\ DOMAIN b = DOMAIN a
  /\ \A k \in DOMAIN a : a[k] = DocOld /\ b[k] = DocNew

\* the workers of the first pass of the run have all returned
FirstPassOver == structural /\ AllDone /\ out_file = NoFile

BackReferences ==
  {k \in DOMAIN task : "doc.title" \in DOMAIN task[k].diff
                         /\ task[k].diff["doc.title"].how = "See"}

FullyRendered ==
  {k \in DOMAIN task : "doc.title" \in DOMAIN task[k].diff
                         /\ task[k].diff["doc.title"].how # "See"}

\* C3: when three documents hold the same string delta at one path, then in
\* any interleaving of the workers the divergence maps hold one fully
\* rendered diff and two back-references.
C3_DedupCorrectness ==
  (ThreeShareOneDelta /\ FirstPassOver) =>
    Cardinality(FullyRendered) = 1 /\ Cardinality(BackReferences) = 2

\* the lines of a text: the pieces between its line breaks
RECURSIVE Lines(_)

\* n is the position of the first line break of s, 0 when it has none
LinesBy(s, n) ==
  IF n = 0 THEN <<s>> ELSE <<SubSeq(s, 1, n - 1)>> \o Lines(From(s, n + 1))

Lines(s) == LinesBy(s, FindChar(s, "\n"))

\* the lines between the header and the end of the file
RowsOf(lines) == SubSeq(lines, 2, Len(lines) - 1)

Rows == RowsOf(Lines(out_file.content))

\* C10: the CSV file is the header "File;JSON Path" followed by one row
\* "document;jsonPath" for each entry of the divergence map of each compared
\* document and by nothing else: there are as many rows as divergences.
C10_CsvCompleteness ==
  out_file.kind = "csv" =>
    LET lines == Lines(out_file.content)
        rows == RowsOf(lines)
    IN  /\ lines[1] = "File;JSON Path"
        /\ lines[Len(lines)] = ""
        /\ {rows[i] : i \in 1..Len(rows)} = {d[1] \o ";" \o d[2] : d \in Divergences}
        /\ Len(rows) = Cardinality(Divergences)

\* C10 happens: a CSV file written for two documents with two divergences
\* each
C10_Witness ==
  /\ out_file.kind = "csv"
  /\ Cardinality(Divergences) = 4
  /\ Cardinality({d[1] : d \in Divergences}) = 2
  /\ Len(Rows) = 4

\* the documents of the symmetric key set that one corpus alone holds
OnlyInA == DOMAIN a \ DOMAIN b

OnlyInB == DOMAIN b \ DOMAIN a

HasRow(k) == \E i \in 1..Len(Rows) : starts_with(Rows[i], k \o ";")

\* C11: every key of the union of the keys of both corpora is compared: a
\* document that only corpus B holds is compared with null and gets its rows
\* in the CSV file, as a document that only corpus A holds does.
C11_SymmetricKeySet ==
  out_file.kind = "csv" => \A k \in OnlyInA \cup OnlyInB : HasRow(k)

\* the documents whose divergence map holds the string delta at doc.title
Occurrences == {k \in DOMAIN task : "doc.title" \in DOMAIN task[k].diff}

\* the documents that differ in their title, which the corpora determine
TitleChanged ==
  {k \in DOMAIN a \cap DOMAIN b :
     /\ a[k].t = "Object"
     /\ b[k].t = "Object"
     /\ ValueAt(a[k], Path(<<"doc", "title">>)) # ValueAt(b[k], Path(<<"doc", "title">>))}

\* C12: what a pass reports is a function of the corpora and the flags in
\* every interleaving of the workers: the divergence keys are those of the
\* documents that changed, and the delta they share is rendered in full once
\* and referred to by every other occurrence; only the occurrence that
\* holds the full rendering varies.
C12_DeterministicContent ==
  FirstPassOver =>
    /\ Occurrences = TitleChanged
    /\ Cardinality(FullyRendered) = (IF TitleChanged = {} THEN 0 ELSE 1)
    /\ Cardinality(BackReferences) = Cardinality(TitleChanged) - Cardinality(FullyRendered)

(***************************************************************************)
(* Loading the corpora: gather                                             *)
(***************************************************************************)

\* Result: Ok(v) or Err
Ok(v) == [ok |-> TRUE, v |-> v]

Err == [ok |-> FALSE, v |-> Null]

\* what a parser has read and the text it has left
Parsed(v, rest) == [ok |-> TRUE, v |-> v, rest |-> rest]

NotParsed == [ok |-> FALSE, v |-> Null, rest |-> ""]

\* length of the longest prefix of s made of ASCII digits
RECURSIVE DigitRun(_)
DigitRun(s) == IF Len(s) > 0 /\ is_ascii_digit(At(s, 1)) THEN 1 + DigitRun(From(s, 2)) ELSE 0

\* serde_json::from_str over JSON text without white space and escapes:
\* null, unsigned integers, strings, arrays and objects
RECURSIVE parse_value(_)

string_to(s, q) ==
  IF q = 0 THEN NotParsed ELSE Parsed(String(SubSeq(s, 2, q - 1)), From(s, q + 1))

RECURSIVE parse_elements(_, _)
after_element(r, acc) ==
  IF ~r.ok THEN NotParsed
  ELSE IF starts_with(r.rest, ",") THEN parse_elements(From(r.rest, 2), Append(acc, r.v))
  ELSE IF starts_with(r.rest, "]") THEN Parsed(Array(Append(acc, r.v)), From(r.rest, 2))
  ELSE NotParsed

parse_elements(s, acc) == after_element(parse_value(s), acc)

RECURSIVE parse_members(_, _)
after_member(key, r, acc) ==
  IF ~r.ok THEN NotParsed
  ELSE IF starts_with(r.rest, ",") THEN parse_members(From(r.rest, 2), insert(acc, key, r.v))
  ELSE IF starts_with(r.rest, "}") THEN Parsed(Object(insert(acc, key, r.v)), From(r.rest, 2))
  ELSE NotParsed

after_key(k, acc) ==
  IF ~k.ok \/ ~starts_with(k.rest, ":") THEN NotParsed
  ELSE after_member(k.v.s, parse_value(From(k.rest, 2)), acc)

parse_members(s, acc) ==
  IF ~starts_with(s, "\"") THEN NotParsed ELSE after_key(string_to(s, FindFrom(s, "\"", 2)), acc)

parse_value(s) ==
  IF starts_with(s, "null") THEN Parsed(Null, From(s, 5))
  ELSE IF DigitRun(s) > 0 THEN Parsed(Number(SubSeq(s, 1, DigitRun(s))), From(s, DigitRun(s) + 1))
  ELSE IF starts_with(s, "\"") THEN string_to(s, FindFrom(s, "\"", 2))
  ELSE IF starts_with(s, "[]") THEN Parsed(Array(<<>>), From(s, 3))
  ELSE IF starts_with(s, "[") THEN parse_elements(From(s, 2), <<>>)
  ELSE IF starts_with(s, "{}") THEN Parsed(Object(<<>>), From(s, 3))
  ELSE IF starts_with(s, "{") THEN parse_members(From(s, 2), <<>>)
  ELSE NotParsed

whole(r) == IF r.ok /\ r.rest = "" THEN Ok(r.v) ELSE Err

from_str(s) == whole(parse_value(s))

\* a step of a compiled JSONPath: a child by name, or all children
Child(name) == [k |-> "child", s |-> name]

Wildcard == [k |-> "all", s |-> ""]

\* length of the longest prefix of s made of letters
RECURSIVE NameRun(_)
NameRun(s) == IF Len(s) > 0 /\ IsLetter(At(s, 1)) THEN 1 + NameRun(From(s, 2)) ELSE 0

\* jsonpath_lib::Compiled::compile over paths of the form $ (.name | [*])*
RECURSIVE compile_steps(_, _)
compile_steps(s, acc) ==
  IF Len(s) = 0 THEN Ok(acc)
  ELSE IF starts_with(s, "[*]") THEN compile_steps(From(s, 4), Append(acc, Wildcard))
  ELSE IF starts_with(s, ".") /\ NameRun(From(s, 2)) > 0
       THEN compile_steps(From(s, 2 + NameRun(From(s, 2))),
                          Append(acc, Child(SubSeq(s, 2, 1 + NameRun(From(s, 2))))))
  ELSE Err

compile(selector) == IF starts_with(selector, "$") THEN compile_steps(From(selector, 2), <<>>) ELSE Err

values_of(v, keys) == [i \in 1..Len(keys) |-> v.o[keys[i]]]

\* the nodes a step selects beneath one node
children(v, step) ==
  IF step.k = "child"
  THEN (IF v.t = "Object" /\ step.s \in DOMAIN v.o THEN <<v.o[step.s]>> ELSE <<>>)
  ELSE IF v.t = "Array" THEN v.a
  ELSE IF v.t = "Object" THEN values_of(v, SortedKeys(DOMAIN v.o))
  ELSE <<>>

\* Compiled::select: the nodes the path selects, in document order
RECURSIVE select(_, _)
select(nodes, steps) ==
  IF Len(steps) = 0 THEN nodes
  ELSE select(Flatten([i \in 1..Len(nodes) |-> children(nodes[i], steps[1])]), Tail(steps))

\* `.into_iter().next().cloned().unwrap_or(Value::Null)`
first_or_null(selected) == IF Len(selected) = 0 THEN Null ELSE selected[1]

\* the projection with the last of the selected values kept
extract_last(index, template) ==
  IF Len(template) = 0 THEN index
  ELSE Reverse(<<Null>> \o select(<<index>>, template[1]))[1]

\* `let extract = if let Some(template) = &template {..} else { index }`
extract(index, template) ==
  IF Len(template) = 0 THEN index ELSE first_or_null(select(<<index>>, template[1]))

\* an entry of the walk of a tree: an error of the walk, a directory or a file
WalkError == [walk |-> "error", file |-> FALSE, path |-> "", read |-> FALSE, text |-> ""]

Directory(path) == [walk |-> "ok", file |-> FALSE, path |-> path, read |-> FALSE, text |-> ""]

File(path, text) == [walk |-> "ok", file |-> TRUE, path |-> path, read |-> TRUE, text |-> text]

Unreadable(path) == [walk |-> "ok", file |-> TRUE, path |-> path, read |-> FALSE, text |-> ""]

\* the type "json:index.json" selected in walk_builder: of the files, the
\* walk yields those named index.json
is_index(path) == path = "index.json" \/ ends_with(path, "/index.json")

yielded(e) == e.walk = "error" \/ ~e.file \/ is_index(e.path)

\* `.filter_map(Result::ok).filter(|f| .. ft.is_file() ..)`
is_ok_file(e) == e.walk = "ok" /\ e.file

\* the closure of `.map`: read, parse, project
projected(index, template) == IF index.ok THEN Ok(extract(index.v, template)) ELSE Err

load(e, template) == IF e.read THEN projected(from_str(e.text), template) ELSE Err

\* `.collect()` into Result<BTreeMap<String, Value>, Error>
RECURSIVE collect(_, _, _)
collected_one(r, e, rest, template, acc) ==
  IF r.ok THEN collect(rest, template, insert(acc, e.path, r.v)) ELSE Err

collect(entries, template, acc) ==
  IF Len(entries) = 0 THEN Ok(acc)
  ELSE collected_one(load(entries[1], template), entries[1], Tail(entries), template, acc)

with_template(tree, template) ==
  IF template.ok
  THEN collect(SelectSeq(SelectSeq(tree, yielded), is_ok_file), <<template.v>>, <<>>)
  ELSE Err

gather(tree, selector) ==
  IF Len(selector) = 0
  THEN collect(SelectSeq(SelectSeq(tree, yielded), is_ok_file), <<>>, <<>>)
  ELSE with_template(tree, compile(selector[1]))

\* main after `gather(&arg.root_a, ..)?`
GatheredA(r) ==
  IF r.ok THEN a' = r.v /\ pc' = "gather_b" ELSE a' = a /\ pc' = "failed"

GatherA ==
  /\ pc = "gather_a"
  /\ GatheredA(gather(input.root_a, input.query))
  /\ UNCHANGED <<input, b, arg, hash_order, same, DIFF_MAP, task, out_file, summary, call>>

\* main after `gather(&arg.root_b, ..)?`, up to the first pass
GatheredB(r) ==
  IF r.ok
  THEN b' = r.v /\ pc' = FirstPass(arg) /\ task' = [k \in DOMAIN a |-> NewTask]
  ELSE b' = b /\ pc' = "failed" /\ task' = task

GatherB ==
  /\ pc = "gather_b"
  /\ GatheredB(gather(input.root_b, input.query))
  /\ UNCHANGED <<input, a, arg, hash_order, same, DIFF_MAP, out_file, summary, call>>

\* the texts of the index files
PageOld == "{\"doc\":{\"title\":\"old\",\"tags\":[\"x\",\"y\"]},\"url\":\"/a\"}"

PageNew == "{\"doc\":{\"title\":\"new\",\"tags\":[\"x\",\"y\"]},\"url\":\"/b\"}"

PageBare == "{\"url\":\"/a\"}"

PageCut == "{\"doc\":{\"title\":"

PageMarkup == "{\"doc\":{\"title\":\"<p>a</p>\"}}"

PageBroken == "{\"doc\":{\"title\":\"<select><xmp>a</xmp></select>\"}}"

FirstFile == "docs/web/css/color/index.json"

SecondFile == "docs/web/api/fetch/index.json"

\* the trees: well-formed ones, one whose root cannot be read, one with a
\* directory that cannot be read, one with a file that cannot be read, one
\* with a file that is not JSON, and two with markup in the title, the
\* second beyond the rewriter; notes.json is not an index file
Trees ==
  {<<Directory("docs"), File(FirstFile, PageOld), File(SecondFile, PageOld)>>,
   <<Directory("docs"), File(FirstFile, PageNew), File(SecondFile, PageOld),
     File("docs/notes.json", PageCut)>>,
   <<Directory("docs"), File(FirstFile, PageOld), File(SecondFile, PageBare)>>,
   <<WalkError>>,
   <<Directory("docs"), File(FirstFile, PageOld), WalkError>>,
   <<Directory("docs"), File(FirstFile, PageOld), Unreadable(SecondFile)>>,
   <<Directory("docs"), File(FirstFile, PageOld), File(SecondFile, PageCut)>>,
   <<Directory("docs"), File(FirstFile, PageMarkup)>>,
   <<Directory("docs"), File(FirstFile, PageBroken)>>}

Queries == {<<>>, <<"$.doc.title">>, <<"$.doc.tags[*]">>, <<"$.doc[">>}

GatherFlags ==
  {[NoFlags EXCEPT !.csv = TRUE],
   [NoFlags EXCEPT !.html = TRUE, !.csv = TRUE],
   [NoFlags EXCEPT !.html = TRUE, !.value = TRUE]}

InitGather ==
  /\ input \in [root_a : Trees, root_b : Trees, query : Queries]
  /\ arg \in GatherFlags
  /\ hash_order = "asc"
  /\ pc = "gather_a"
  /\ a = <<>>
  /\ b = <<>>
  /\ same = 0
  /\ DIFF_MAP = <<>>
  /\ task = <<>>
  /\ out_file = NoFile
  /\ summary = NoSummary
  /\ call = NoCall

NextGather == GatherA \/ GatherB \/ Next

SpecGather == InitGather /\ [][NextGather]_vars

(***************************************************************************)
(* Properties of the loading (specification SpecGather)                    *)
(***************************************************************************)

\* the tree holds something that cannot be loaded: an entry the walk cannot
\* read, an index file that cannot be read or one that is not JSON
Unloadable(tree) ==
  \E i \in 1..Len(tree) :
    \/ tree[i].walk = "error"
    \/ /\ tree[i].file
       /\ is_index(tree[i].path)
       /\ (~tree[i].read \/ tree[i].text = PageCut)

BadQuery == input.query = <<"$.doc[">>

\* C13: when a root or an entry under it cannot be read during the walk, an
\* index file cannot be read or is not JSON, or the projection does not
\* compile, the run stops in gather: no comparison is started and no output
\* file is created.
C13_LoadErrorsFatal ==
  (Unloadable(input.root_a) \/ Unloadable(input.root_b) \/ BadQuery) =>
    /\ pc \in {"gather_a", "gather_b", "failed"}
    /\ task = <<>>
    /\ same = 0
    /\ out_file = NoFile

\* what the projection extracts from each text: the title, the first of the
\* tags, null from the page that has neither
Projection(selector, text) ==
  IF text = PageBare THEN Null
  ELSE IF selector = "$.doc.tags[*]"
       THEN IF text \in {PageMarkup, PageBroken} THEN Null ELSE String("x")
  ELSE IF text = PageOld THEN String("old")
  ELSE IF text = PageMarkup THEN String("<p>a</p>")
  ELSE IF text = PageBroken THEN String("<select><xmp>a</xmp></select>")
  ELSE String("new")

IndexFiles(tree) ==
  {i \in 1..Len(tree) : tree[i].walk = "ok" /\ tree[i].file /\ is_index(tree[i].path)}

ProjectedAll(tree, map) ==
  \A i \in IndexFiles(tree) :
    /\ tree[i].path \in DOMAIN map
    /\ map[tree[i].path] = Projection(input.query[1], tree[i].text)

\* C14: with a projection, gather succeeds and maps every document to the
\* first of the values the projection selects in it, and to null when it
\* selects none.
C14_ProjectionFirstOrNull ==
  /\ (input.query # <<>> /\ pc \notin {"gather_a", "failed"}) =>
       ProjectedAll(input.root_a, a)
  /\ (input.query # <<>> /\ pc \notin {"gather_a", "gather_b", "failed"}) =>
       ProjectedAll(input.root_b, b)

\* C14 happens: both corpora are loaded with the projection on the tags,
\* which selects two values in one page and none in the other
C14_Witness ==
  /\ pc \notin {"gather_a", "gather_b", "failed"}
  /\ input.query = <<"$.doc.tags[*]">>
  /\ a = (FirstFile :> String("x") @@ SecondFile :> Null)

(***************************************************************************)
(* Properties of the policy of a single call (specification SpecDiff)      *)
(***************************************************************************)

WholeDocuments == call.at = <<>> /\ call.lhs.t = "Object" /\ call.rhs.t = "Object"

Differ(names) == ValueAt(call.lhs, Path(names)) # ValueAt(call.rhs, Path(names))

\* C15: the key "url" of the root of a document is never a key of the
\* divergence map.
C15_RootUrlIgnored ==
  (Returned /\ WholeDocuments) => "url" \notin DOMAIN call.diff

\* C15 happens: two pages with different urls, and a divergence elsewhere
C15_Witness ==
  /\ Returned
  /\ WholeDocuments
  /\ Differ(<<"url">>)
  /\ call.diff # <<>>
  /\ "url" \notin DOMAIN call.diff

\* C16: for a document whose path starts with a prefix of SKIP_GLOB_LIST the
\* divergence map stays empty, whatever the two values are.
C16_SkippedDocuments ==
  (Returned /\ \E prefix \in SKIP_GLOB_LIST : starts_with(call.file, prefix)) =>
    call.diff = <<>>

\* C16 happens: two pages under docs/mdn/writing_guidelines/ that differ in
\* their table of contents
C16_Witness ==
  /\ Returned
  /\ starts_with(call.file, "docs/mdn/writing_guidelines/")
  /\ Differ(<<"doc", "toc">>)
  /\ call.diff = <<>>

\* C17: no divergence is recorded at a path that starts with one of the
\* IGNORED_KEYS, and none at doc.sidebarHTML unless --sidebars is set; the
\* title and, with --sidebars, the sidebar are reported when they differ.
C17_IgnoredKeys ==
  (Returned /\ WholeDocuments) =>
    /\ \A key \in DOMAIN call.diff :
         /\ \A prefix \in IGNORED_KEYS : ~starts_with(key, prefix)
         /\ key = "doc.sidebarHTML" => arg.sidebars
    /\ ("sidebarHTML" \in DOMAIN ValueAt(call.lhs, Path(<<"doc">>)).o) =>
         /\ "doc.title" \in DOMAIN call.diff <=> Differ(<<"doc", "title">>)
         /\ "doc.sidebarHTML" \in DOMAIN call.diff <=>
              (arg.sidebars /\ Differ(<<"doc", "sidebarHTML">>))

\* C17 happens: two pages that differ in popularity, flaws, sidebar and
\* title, compared without --sidebars: the title alone is reported
C17_Witness ==
  /\ Returned
  /\ WholeDocuments
  /\ ~arg.sidebars
  /\ Differ(<<"doc", "popularity">>)
  /\ Differ(<<"doc", "flaws", "x">>)
  /\ Differ(<<"doc", "sidebarHTML">>)
  /\ DOMAIN call.diff = {"doc.title"}

\* the documents the report names: those of the items of the HTML file, or
\* of the rows of the CSV file; none where no file is written
Reported ==
  IF out_file.kind = "html"
  THEN UNION {{out_file.groups[c][i].k : i \in 1..Len(out_file.groups[c])} :
                c \in DOMAIN out_file.groups}
  ELSE {k \in DOMAIN task : task[k].item # NoItem}

\* C20: whatever the output flags, the run ends with a count of same
\* documents of at most the total, and prints as remaining the number of
\* documents with reported divergences.
C20_CountAccounting ==
  /\ pc # "panicked"
  /\ Finished =>
       /\ summary.same <= summary.hits
       /\ summary.remaining >= 0
       /\ summary.remaining = Cardinality(Reported)

\* the workers that have looked a hash up in DIFF_MAP, found nothing and
\* have not inserted yet
Missed == {k \in DOMAIN task : task[k].st = "diff" /\ task[k].miss}

\* the hash a worker is at
HashAt(k) == diff_hash(task[k].leaves[1].lhs, task[k].leaves[1].rhs)

\* C21: the look-up and the insert into DIFF_MAP are one atomic step: of the
\* workers with the same hash one alone observes a miss, and a worker that
\* observed a miss never writes an entry that is already written.
C21_AtomicCheckAndInsert ==
  \A k \in Missed :
    /\ HashAt(k) \notin DOMAIN DIFF_MAP
    /\ \A j \in Missed : HashAt(j) = HashAt(k) => j = k

\* a worker has panicked in the canonicaliser
CanonicalizationFailed == \E k \in DOMAIN task : task[k].st = "panicked"

\* C24: once the canonicaliser has failed in a worker, the run does not
\* finish normally and there is no file at the output path, whatever the
\* flags.
C24_FailureAbortsRun ==
  CanonicalizationFailed => (pc = "panicked" /\ out_file = NoFile)

\* the documents the plain comparison of the HTML pass has counted as same
\* although tree B holds another value, or none
CountedSameThoughUnequal ==
  {k \in DOMAIN task : task[k].st = "done" /\ task[k].item = NoItem /\ ~same_in_b(k)}

\* both values are strings, equal once the whitespace is normalised
SameTextButWhitespace(k) ==
  /\ a[k].t = "String"
  /\ k \in DOMAIN b
  /\ b[k].t = "String"
  /\ minify(WS_DIFF_replace_all(a[k].s)) = minify(WS_DIFF_replace_all(b[k].s))

\* C27: in the HTML pass without --value, an unequal pair is counted as same
\* only if both values are strings that are equal after the whitespace
\* normalisation of --ignore-html-whitespace; an unequal pair of values that
\* are not strings is never counted as same.
C27_PlainComparison ==
  (pc = "html" /\ ~arg.value) =>
    \A k \in CountedSameThoughUnequal :
      arg.ignore_html_whitespace /\ SameTextButWhitespace(k)

(***************************************************************************)
(* The HTML report of a corpus whose workers have all returned             *)
(* (specification SpecGroup)                                               *)
(***************************************************************************)

\* the documents and the category each belongs to
GroupFiles == {"docs/web/css/color/index.json", "docs/web/css/outline/index.json",
               "docs/web/api/fetch/index.json", "docs/web/index.json",
               "docs/glossary/dom/index.json", "blog/intro/index.json", "index.json"}

\* the state of `diff --html` at the end of its pass over strings: each
\* document is absent, the same on both sides, or changed and an item
InitGroup ==
  \E fate \in [GroupFiles -> {"absent", "same", "changed"}] :
    /\ a = [k \in {f \in GroupFiles : fate[f] # "absent"} |-> StrOld]
    /\ b = [k \in DOMAIN a |-> IF fate[k] = "changed" THEN String("<p>b</p>") ELSE StrOld]
    /\ arg = [NoFlags EXCEPT !.html = TRUE]
    /\ hash_order = "asc"
    /\ pc = "html"
    /\ same = Cardinality({k \in DOMAIN a : fate[k] = "same"})
    /\ DIFF_MAP = <<>>
    /\ task = [k \in DOMAIN a |->
                 [NewTask EXCEPT !.st = "done",
                                 !.item = IF fate[k] = "changed"
                                          THEN <<list_item(k, "ab", <<>>, "<p>a</p>", "<p>b</p>")>>
                                          ELSE NoItem]]
    /\ out_file = NoFile
    /\ summary = NoSummary
    /\ call = NoCall
    /\ input = NoInput

NextGroup == WriteHtml \/ PrintSummary

SpecGroup == InitGroup /\ [][NextGroup]_vars

\* the documents of the report
Emitted == {k \in DOMAIN a : a[k] # b[k]}

CategoryOf ==
  [k \in GroupFiles |->
     CASE k \in {"docs/web/css/color/index.json", "docs/web/css/outline/index.json"} ->
            "docs/web/css"
       [] k = "docs/web/api/fetch/index.json" -> "docs/web/api"
       [] k = "docs/web/index.json" -> "docs/web/index.json"
       [] k = "docs/glossary/dom/index.json" -> "docs/glossary"
       [] k = "blog/intro/index.json" -> "blog"
       [] k = "index.json" -> "index.json"]

\* the positions of a document in a group
PlacesIn(cat, k) ==
  {i \in 1..Len(out_file.groups[cat]) : out_file.groups[cat][i].k = k}

Members(cat) == {k \in Emitted : CategoryOf[k] = cat}

\* C25: every item of the HTML report is in one group, once, the group of
\* its category; a group shows the number of its items, and the groups hold
\* as many items as were emitted.
C25_HtmlGrouping ==
  out_file.kind = "html" =>
    /\ DOMAIN out_file.groups = {CategoryOf[k] : k \in Emitted}
    /\ \A cat \in DOMAIN out_file.groups :
         /\ \A k \in Emitted :
              Cardinality(PlacesIn(cat, k)) = IF CategoryOf[k] = cat THEN 1 ELSE 0
         /\ Len(out_file.groups[cat]) = Cardinality(Members(cat))
         /\ Contains(out_file.content,
                     "<summary>[" \o At(DIGITS, Cardinality(Members(cat)) + 1) \o "] "
                       \o cat \o "</summary>")

\* C25 happens: a report of seven items in six groups, two under docs/web/css
C25_Witness ==
  /\ out_file.kind = "html"
  /\ Emitted = GroupFiles
  /\ Cardinality(DOMAIN out_file.groups) = 6
  /\ Len(out_file.groups["docs/web/css"]) = 2

(***************************************************************************)
(* Resolving URLs: crates/rari-doc/src/resolve.rs                          *)
(***************************************************************************)

\* the locales of rari_types::locale::Locale, by their URL names
LocaleNames == {"en-US", "de", "es", "fr", "ja", "ko", "pt-BR", "ru", "zh-CN", "zh-TW"}

\* Locale::default()
DefaultLocale == "en-US"

LocaleOk(l) == [ok |-> TRUE, locale |-> l]

LocaleErr == [ok |-> FALSE, locale |-> ""]

\* Locale::from_str: the name of a locale, in its own spelling or, where the
\* parser folds the case, in any
Locale_from_str(str, fold) ==
  IF str \in LocaleNames THEN LocaleOk(str)
  ELSE IF fold /\ \E l \in LocaleNames : to_lowercase(l) = to_lowercase(str)
       THEN LocaleOk(CHOOSE l \in LocaleNames : to_lowercase(l) = to_lowercase(str))
       ELSE LocaleErr

\* SPA::is_spa(slug, locale), GenericPage::is_generic(slug, locale): decided
\* by the pages on disk
is_spa(slug, locale, ext) == ext.spa

is_generic(slug, locale, ext) == ext.generic

\* url_to_path_buf
url_to_path_buf(slug) ==
  to_lowercase(replace(replace(replace(replace(slug, "*", "_star_"),
                                       "::", "_doublecolon_"),
                               ":", "_colon_"),
                       "?", "_question_"))

\* url[1..].find('/').map(|i| i + 1).unwrap_or(url.len()), as a byte offset
locale_end(url) ==
  IF FindChar(From(url, 2), "/") = 0 THEN Len(url) ELSE FindChar(From(url, 2), "/")

\* strip_locale_from_url keeping nothing of the separator
strip_locale_from_url_no_slash(url, fold) ==
  IF Len(url) < 2 \/ ~starts_with(url, "/") THEN [locale |-> LocaleErr, url |-> url]
  ELSE [locale |-> Locale_from_str(SubSeq(url, 2, locale_end(url)), fold),
        url |-> From(url, locale_end(url) + 2)]

\* strip_locale_from_url: (locale, &url[i..])
strip_locale_from_url(url, fold) ==
  IF Len(url) < 2 \/ ~starts_with(url, "/") THEN [locale |-> LocaleErr, url |-> url]
  ELSE [locale |-> Locale_from_str(SubSeq(url, 2, locale_end(url)), fold),
        url |-> From(url, locale_end(url) + 1)]

\* Ok((path, slug, locale, typ)) and the two errors
UrlOk(slug, locale, typ) ==
  [ok |-> TRUE, path |-> url_to_path_buf(slug), slug |-> slug, locale |-> locale, typ |-> typ]

UrlErr(e) == [ok |-> FALSE, path |-> "", slug |-> "", locale |-> "", typ |-> e]

\* slug.strip_prefix('/').unwrap_or(slug)
strip_prefix_slash(slug) == IF starts_with(slug, "/") THEN From(slug, 2) ELSE slug

\* the last arm of the match: a single page application or a generic page
other_page(slug, locale, ext) ==
  IF is_spa(slug, locale, ext) THEN UrlOk(slug, locale, "SPA")
  ELSE IF is_generic(slug, locale, ext) THEN UrlOk(slug, locale, "GenericPage")
  ELSE UrlErr("InvalidUrl")

\* match tail.as_slice()
match_tail(url_path, tail, locale, ext) ==
  IF Len(tail) = 2 /\ tail[1] = "docs" THEN UrlOk(tail[2], locale, "Doc")
  ELSE IF /\ tail \in {<<"blog">>, <<"blog", "">>}
          /\ locale = DefaultLocale
       THEN UrlOk("blog", locale, "SPA")
  ELSE IF Len(tail) = 2 /\ tail[1] = "blog" /\ locale = DefaultLocale
       THEN UrlOk(tail[2], locale, "BlogPost")
  ELSE IF Len(tail) = 2 /\ tail[1] = "curriculum" /\ locale = DefaultLocale
       THEN UrlOk(tail[2], locale, "Curriculum")
  ELSE IF /\ Len(tail) = 2 /\ tail[1] = "community" /\ locale = DefaultLocale
          /\ starts_with(tail[2], "spotlight")
       THEN UrlOk(tail[2], locale, "ContributorSpotlight")
  ELSE IF Len(tail) >= 1 /\ tail[1] = "community" THEN UrlErr("InvalidUrl")
  ELSE other_page(strip_prefix_slash(strip_locale_from_url(url_path, ext.fold).url),
                  locale, ext)

\* &url_path[..url_path.find('#').unwrap_or(url_path.len())]
before_fragment(url_path) ==
  IF FindChar(url_path, "#") = 0 THEN url_path
  ELSE SubSeq(url_path, 1, FindChar(url_path, "#") - 1)

\* split.next().unwrap_or_default() and split.collect() behind skip(1)
split_locale(split) == IF Len(split) >= 2 THEN split[2] ELSE ""

split_tail(split) == IF Len(split) >= 2 THEN SubSeq(split, 3, Len(split)) ELSE <<>>

with_locale(url_path, split, locale, ext) ==
  IF locale.ok THEN match_tail(url_path, split_tail(split), locale.locale, ext)
  ELSE UrlErr("LocaleError")

with_split(url_path, split, ext) ==
  with_locale(url_path, split, Locale_from_str(split_locale(split), ext.fold), ext)

\* url_path_to_path_buf
url_path_to_path_buf(url_path, ext) ==
  with_split(url_path, splitn(before_fragment(url_path), 4), ext)

\* the URLs the functions are applied to
Firsts == {"en-US", "en-us", "fr", "xx", ""}

Seconds == {"docs", "blog", "curriculum", "community", "play"}

Tails == {"Web", "Web/HTML", "Web/API/A::b", "a*b?c:d", "", "Web#x", "spotlight/Q"}

Urls ==
  {"/" \o f \o "/" \o m \o "/" \o t : f \in Firsts, m \in Seconds, t \in Tails}
  \cup {"/" \o f \o "/" \o m : f \in Firsts, m \in Seconds}
  \cup {"", "/", "x", "en-US/docs/Web", "/en-US", "/fr", "//docs/Web"}

\* what the code outside this file may answer
Exts == [fold : BOOLEAN, spa : BOOLEAN, generic : BOOLEAN]

InitResolve ==
  \E url \in Urls, ext \in Exts :
    /\ call = [st |-> "ready", fn |-> "", url |-> url, ext |-> ext]
    /\ arg = NoFlags
    /\ hash_order = "asc"
    /\ DIFF_MAP = <<>>
    /\ a = <<>>
    /\ b = <<>>
    /\ pc = "call"
    /\ same = 0
    /\ task = <<>>
    /\ out_file = NoFile
    /\ summary = NoSummary
    /\ input = NoInput

Applied(fn, result) ==
  /\ call.st = "ready"
  /\ call' = [st |-> "done", fn |-> fn, url |-> call.url, ext |-> call.ext,
              result |-> result]
  /\ UNCHANGED <<input, a, b, arg, hash_order, pc, same, DIFF_MAP, task, out_file, summary>>

UrlToPathBuf == Applied("url_to_path_buf", url_to_path_buf(call.url))

StripLocaleFromUrl ==
  Applied("strip_locale_from_url", strip_locale_from_url(call.url, call.ext.fold))

UrlPathToPathBuf ==
  Applied("url_path_to_path_buf", url_path_to_path_buf(call.url, call.ext))

NextResolve == UrlToPathBuf \/ StripLocaleFromUrl \/ UrlPathToPathBuf

SpecResolve == InitResolve /\ [][NextResolve]_vars

(***************************************************************************)
(* Properties of the resolved URLs (specification SpecResolve)             *)
(***************************************************************************)

Resolved(fn) == call.st = "done" /\ call.fn = fn

\* the URL is /<locale>/docs/<tail>, the locale a valid one, the tail
\* without a fragment
DocsUrl(locale, tail) ==
  /\ call.url = "/" \o locale \o "/docs/" \o tail
  /\ Locale_from_str(locale, call.ext.fold).ok
  /\ FindChar(tail, "#") = 0

\* the tail with '*', "::", ':' and '?' written out
Escaped(tail) ==
  replace(replace(replace(replace(tail, "*", "_star_"), "::", "_doublecolon_"),
                  ":", "_colon_"), "?", "_question_")

\* C18: for /<locale>/docs/<tail> url_path_to_path_buf returns the parsed
\* locale, the escaped tail in lower case as the path and the tail in lower
\* case as the slug.
C18_UrlToPath ==
  Resolved("url_path_to_path_buf") =>
    \A locale \in Firsts, tail \in Tails :
      DocsUrl(locale, tail) =>
        /\ call.result.ok
        /\ call.result.locale = Locale_from_str(locale, call.ext.fold).locale
        /\ call.result.path = to_lowercase(Escaped(tail))
        /\ call.result.slug = to_lowercase(tail)

\* the URL is "/" locale rest, the locale a valid one and rest behind a '/'
LocalisedUrl(n) ==
  /\ Len(call.url) >= 2
  /\ starts_with(call.url, "/")
  /\ starts_with(From(call.url, n + 1), "/")
  /\ Locale_from_str(SubSeq(call.url, 2, n), call.ext.fold).ok

\* C19: strip_locale_from_url returns the locale of "/<locale>/<rest>" and
\* "/<rest>" as it stands; a URL of less than two characters or without a
\* leading '/' comes back whole, without a locale.
C19_StripLocale ==
  Resolved("strip_locale_from_url") =>
    /\ \A n \in 2..Len(call.url) :
         LocalisedUrl(n) =>
           /\ call.result.locale = Locale_from_str(SubSeq(call.url, 2, n), call.ext.fold)
           /\ call.result.url = From(call.url, n + 1)
    /\ (Len(call.url) < 2 \/ ~starts_with(call.url, "/")) =>
         /\ ~call.result.locale.ok
         /\ call.result.url = call.url

\* C19 happens: the locale of "/en-US/docs/Web" is stripped
C19_Witness ==
  /\ Resolved("strip_locale_from_url")
  /\ call.url = "/en-US/docs/Web"
  /\ call.result = [locale |-> LocaleOk("en-US"), url |-> "/docs/Web"]

(***************************************************************************)
(* build_url and back (specification SpecRoundTrip)                        *)
(***************************************************************************)

\* Locale::as_url_str: the name Locale::from_str reads
as_url_str(locale) == locale

BuiltOk(url) == [ok |-> TRUE, url |-> url]

BuiltErr == [ok |-> FALSE, url |-> ""]

\* build_url; SPA::from_slug is taken to find no page for the slug
build_url(slug, locale, typ) ==
  CASE typ = "Doc" -> BuiltOk("/" \o as_url_str(locale) \o "/docs/" \o slug)
    [] typ = "BlogPost" -> BuiltOk("/" \o as_url_str(locale) \o "/blog/" \o slug \o "/")
    [] typ = "SPA" -> BuiltErr
    [] typ = "Curriculum" ->
         BuiltOk("/" \o as_url_str(locale) \o "/curriculum/" \o slug \o "/")
    [] typ = "ContributorSpotlight" ->
         BuiltOk("/" \o as_url_str(locale) \o "/community/spotlight/" \o slug)
    [] typ = "GenericPage" -> BuiltOk("/" \o as_url_str(locale) \o "/" \o slug)

PageCategory == {"Doc", "BlogPost", "SPA", "Curriculum", "ContributorSpotlight", "GenericPage"}

Slugs == {"Web/HTML", "Web", "a-b", "", "spotlight/Q", "Web/API/A::b"}

InitRoundTrip ==
  \E slug \in Slugs, locale \in {"en-US", "fr", "zh-CN"}, typ \in PageCategory, ext \in Exts :
    /\ call = [st |-> "ready", slug |-> slug, locale |-> locale, typ |-> typ, ext |-> ext,
               built |-> BuiltErr, result |-> UrlErr("")]
    /\ arg = NoFlags
    /\ hash_order = "asc"
    /\ DIFF_MAP = <<>>
    /\ a = <<>>
    /\ b = <<>>
    /\ pc = "call"
    /\ same = 0
    /\ task = <<>>
    /\ out_file = NoFile
    /\ summary = NoSummary
    /\ input = NoInput

BuildUrl ==
  /\ call.st = "ready"
  /\ call' = [call EXCEPT !.st = "built",
                          !.built = build_url(call.slug, call.locale, call.typ)]
  /\ UNCHANGED <<input, a, b, arg, hash_order, pc, same, DIFF_MAP, task, out_file, summary>>

UrlPathBack ==
  /\ call.st = "built"
  /\ call.built.ok
  /\ call' = [call EXCEPT !.st = "back",
                          !.result = url_path_to_path_buf(call.built.url, call.ext)]
  /\ UNCHANGED <<input, a, b, arg, hash_order, pc, same, DIFF_MAP, task, out_file, summary>>

NextRoundTrip == BuildUrl \/ UrlPathBack

SpecRoundTrip == InitRoundTrip /\ [][NextRoundTrip]_vars

\* a category of the round trip: documents in any locale, the other three in
\* the default locale
RoundTripCase ==
  \/ call.typ = "Doc"
  \/ call.typ \in {"BlogPost", "Curriculum", "ContributorSpotlight"}
       /\ call.locale = DefaultLocale

\* C29: url_path_to_path_buf of build_url(slug, locale, category) returns
\* slug, locale and category, for a slug without '#'.
C29_UrlRoundTrip ==
  (call.st = "back" /\ RoundTripCase /\ FindChar(call.slug, "#") = 0) =>
    /\ call.result.ok
    /\ call.result.slug = call.slug
    /\ call.result.locale = call.locale
    /\ call.result.typ = call.typ

(***************************************************************************)
(* The baseline of a feature: crates/rari-data/src/baseline.rs             *)
(***************************************************************************)

\* the features of the map
NumFeatures == 2

\* Option<BTreeMap<String, SupportStatus>>, of a SupportStatus its baseline
NoByKey == [some |-> FALSE, map |-> <<>>]

ByKey(map) == [some |-> TRUE, map |-> map]

\* Option<SupportStatusWithByKey>
NoStatus == [some |-> FALSE, baseline |-> "", baseline_low_date |-> "", by_compat_key |-> NoByKey]

Status(baseline, date, by_key) ==
  [some |-> TRUE, baseline |-> baseline, baseline_low_date |-> date, by_compat_key |-> by_key]

FeatureData(status, compat_features, discouraged) ==
  [status |-> status, compat_features |-> compat_features, discouraged |-> discouraged]

\* the closure of find_map without the return for a discouraged feature
closure_with_discouraged(feature_data, bcd_key) ==
  IF /\ feature_data.status.some
     /\ bcd_key \in feature_data.compat_features
     /\ feature_data.status.by_compat_key.some
     /\ bcd_key \in DOMAIN feature_data.status.by_compat_key.map
     /\ feature_data.status.by_compat_key.map[bcd_key] = feature_data.status.baseline
  THEN feature_data.status
  ELSE NoStatus

\* the closure of find_map: Some(status) or None
closure(feature_data, bcd_key) ==
  IF feature_data.status.some
  THEN IF bcd_key \in feature_data.compat_features
       THEN IF feature_data.discouraged THEN NoStatus
            ELSE IF feature_data.status.by_compat_key.some
            THEN IF bcd_key \in DOMAIN feature_data.status.by_compat_key.map
                 THEN IF feature_data.status.by_compat_key.map[bcd_key]
                           = feature_data.status.baseline
                      THEN feature_data.status
                      ELSE NoStatus
                 ELSE NoStatus
            ELSE NoStatus
       ELSE NoStatus
  ELSE NoStatus

\* Iterator::find_map over self.features.values(), in the order of the IndexMap
RECURSIVE find_map(_, _)
find_map(values, bcd_key) ==
  IF Len(values) = 0 THEN NoStatus
  ELSE IF closure(values[1], bcd_key).some THEN closure(values[1], bcd_key)
  ELSE find_map(Tail(values), bcd_key)

\* WebFeatures::feature_status
feature_status(features, bcd_key) == find_map(features, bcd_key)

\* the features a map is made of; the date tells the statuses apart
ByKeys == {NoByKey, ByKey(<<>>), ByKey("api.A" :> "high"), ByKey("api.A" :> "low")}

Statuses(date) ==
  {NoStatus} \cup {Status(bl, date, by) : bl \in {"high", "low"}, by \in ByKeys}

Features(date) ==
  {FeatureData(st, cf, d) : st \in Statuses(date), cf \in {{"api.A"}, {"api.B"}},
                            d \in BOOLEAN}

\* the maps of n features, the i-th with the date i
RECURSIVE FeatureMaps(_)
FeatureMaps(n) ==
  IF n = 0 THEN {<<>>}
  ELSE {Append(fs, f) : fs \in FeatureMaps(n - 1), f \in Features(At(DIGITS, n + 1))}

WebFeatures == FeatureMaps(NumFeatures)

InitBaseline ==
  \E features \in WebFeatures :
    /\ call = [st |-> "ready", fn |-> "", features |-> features, bcd_key |-> "api.A"]
    /\ arg = NoFlags
    /\ hash_order = "asc"
    /\ DIFF_MAP = <<>>
    /\ a = <<>>
    /\ b = <<>>
    /\ pc = "call"
    /\ same = 0
    /\ task = <<>>
    /\ out_file = NoFile
    /\ summary = NoSummary
    /\ input = NoInput

FeatureStatus ==
  /\ call.st = "ready"
  /\ call' = [st |-> "done", fn |-> "feature_status", features |-> call.features,
              bcd_key |-> call.bcd_key,
              result |-> feature_status(call.features, call.bcd_key)]
  /\ UNCHANGED <<input, a, b, arg, hash_order, pc, same, DIFF_MAP, task, out_file, summary>>

NextBaseline == FeatureStatus

SpecBaseline == InitBaseline /\ [][NextBaseline]_vars

(***************************************************************************)
(* Properties of feature_status (specification SpecBaseline)               *)
(***************************************************************************)

\* the feature has a status, lists the key, is not discouraged, and the
\* baseline of its entry for the key is the baseline of the feature
Qualifies(f, key) ==
  /\ f.status.some
  /\ key \in f.compat_features
  /\ ~f.discouraged
  /\ f.status.by_compat_key.some
  /\ key \in DOMAIN f.status.by_compat_key.map
  /\ f.status.by_compat_key.map[key] = f.status.baseline

Qualifying == {i \in 1..Len(call.features) : Qualifies(call.features[i], call.bcd_key)}

\* C28: feature_status returns the status of the first feature, in the order
\* of the map, that qualifies for the key, whatever the features before it,
\* and None when no feature qualifies.
C28_FeatureStatus ==
  Resolved("feature_status") =>
    IF Qualifying = {} THEN call.result = NoStatus
    ELSE \E i \in Qualifying :
           /\ \A j \in Qualifying : i <= j
           /\ call.result = call.features[i].status

\* C28 happens: the first feature lists the key and is discouraged, the
\* second qualifies and its status is returned
C28_Witness ==
  /\ Resolved("feature_status")
  /\ call.features[1].status.some
  /\ call.bcd_key \in call.features[1].compat_features
  /\ call.features[1].discouraged
  /\ Qualifies(call.features[2], call.bcd_key)
  /\ call.result = call.features[2].status
  /\ call.result.baseline_low_date = "2"

(***************************************************************************)
(* The preview server: crates/rari-cli/serve.rs                            *)
(***************************************************************************)

\* the requests that come in before the server is closed
MaxRequests == 2

\* Result<BuiltDocy, Error>; of a built page its URL is kept
JsonOk(url) == [ok |-> TRUE, out |-> "{\"url\":\"" \o url \o "\"}"]

JsonErr == [ok |-> FALSE, out |-> ""]

\* url.strip_suffix("index.json").unwrap_or(url)
strip_suffix_index_json(url) ==
  IF ends_with(url, "index.json") THEN SubSeq(url, 1, Len(url) - Len("index.json")) ELSE url

\* get_json: Page::from_url and Page::build succeed or fail as the content on
\* disk has it
get_json(url, page) ==
  IF page = "builds" THEN JsonOk(strip_suffix_index_json(url)) ELSE JsonErr

\* serde_json::to_string_pretty(&Value::Null)
null_data == "null"

\* request.respond(..)?: the response is sent and the loop goes on, or serve
\* returns the error
respond(c, data) ==
  IF c.request.send = "ok"
  THEN [c EXCEPT !.st = "incoming",
                 !.responses = Append(@, [url |-> c.request.url, data |-> data])]
  ELSE [c EXCEPT !.st = "err"]

\* the arm Err(e) returning the error of the page
err_arm_returns(c) == [c EXCEPT !.st = "err"]

\* the arm Err(e): log, respond with null
err_arm(c) == respond(c, null_data)

\* the arm Ok(out): respond with the serialised page
ok_arm(c) == respond(c, c.json.out)

Requests ==
  [url : {"/en-US/docs/Web/index.json", "/en-US/docs/Nope"},
   page : {"builds", "no_page", "build_fails"},
   send : {"ok", "fails"}]

NoRequest == [url |-> "", page |-> "", send |-> ""]

InitServe ==
  \E requests \in SeqsUpTo(Requests, MaxRequests) :
    /\ call = [st |-> "incoming", requests |-> requests, incoming |-> requests,
               request |-> NoRequest, json |-> JsonErr, responses |-> <<>>]
    /\ arg = NoFlags
    /\ hash_order = "asc"
    /\ DIFF_MAP = <<>>
    /\ a = <<>>
    /\ b = <<>>
    /\ pc = "call"
    /\ same = 0
    /\ task = <<>>
    /\ out_file = NoFile
    /\ summary = NoSummary
    /\ input = NoInput

\* `for request in server.incoming_requests()` and `match get_json(url)`
IncomingRequest ==
  /\ call.st = "incoming"
  /\ Len(call.incoming) > 0
  /\ call' = [call EXCEPT !.st = "match",
                          !.request = Head(call.incoming),
                          !.incoming = Tail(call.incoming),
                          !.json = get_json(Head(call.incoming).url, Head(call.incoming).page)]
  /\ UNCHANGED <<input, a, b, arg, hash_order, pc, same, DIFF_MAP, task, out_file, summary>>

OkArm ==
  /\ call.st = "match"
  /\ call.json.ok
  /\ call' = ok_arm(call)
  /\ UNCHANGED <<input, a, b, arg, hash_order, pc, same, DIFF_MAP, task, out_file, summary>>

ErrArm ==
  /\ call.st = "match"
  /\ ~call.json.ok
  /\ call' = err_arm(call)
  /\ UNCHANGED <<input, a, b, arg, hash_order, pc, same, DIFF_MAP, task, out_file, summary>>

\* the iterator ends when the server is closed: Ok(())
ServerClosed ==
  /\ call.st = "incoming"
  /\ Len(call.incoming) = 0
  /\ call' = [call EXCEPT !.st = "ok"]
  /\ UNCHANGED <<input, a, b, arg, hash_order, pc, same, DIFF_MAP, task, out_file, summary>>

NextServe == IncomingRequest \/ OkArm \/ ErrArm \/ ServerClosed

\* the thread of serve keeps running
SpecServe == InitServe /\ [][NextServe]_vars /\ WF_vars(NextServe)

(***************************************************************************)
(* Properties of the preview server (specification SpecServe)              *)
(***************************************************************************)

\* the data request i is to be answered with
Expected(i) ==
  IF call.requests[i].page = "builds"
  THEN IF call.requests[i].url = "/en-US/docs/Web/index.json"
       THEN "{\"url\":\"/en-US/docs/Web/\"}"
       ELSE "{\"url\":\"/en-US/docs/Nope\"}"
  ELSE "null"

\* the responses sent are those of the first requests, one each, in order
OneResponseEach ==
  /\ Len(call.responses) <= Len(call.requests)
  /\ \A i \in 1..Len(call.responses) :
       /\ call.responses[i].url = call.requests[i].url
       /\ call.responses[i].data = Expected(i)

\* serve ends with an error only where a response could not be sent
ErrorFromSendOnly ==
  call.st = "err" =>
    /\ Len(call.responses) < Len(call.requests)
    /\ call.requests[Len(call.responses) + 1].send = "fails"

\* request i comes in and every response up to its own can be sent
Sendable(i) ==
  /\ i <= Len(call.requests)
  /\ \A j \in 1..i : call.requests[j].send = "ok"

Answered(i) == Len(call.responses) >= i

\* C30: every request is answered once, with the page where it builds and
\* with null where it does not; serve goes on to the next request after a
\* page that fails, and ends with an error only when a response cannot be
\* sent.
C30_ServeLoop ==
  /\ [](OneResponseEach /\ ErrorFromSendOnly)
  /\ \A i \in 1..MaxRequests : Sendable(i) ~> Answered(i)

\* C30 happens: a page that does not build is answered with null, and the
\* request after it with its page
C30_Witness ==
  /\ Len(call.requests) = 2
  /\ call.requests[1].page = "build_fails"
  /\ call.requests[2].page = "builds"
  /\ Len(call.responses) = 2
  /\ call.responses[1].data = "null"
  /\ call.responses[2].data = "{\"url\":\"/en-US/docs/Web/\"}"

====
